---- MODULE Spec2Model ----
(***************************************************************************)
(* Conversation orchestration of the F&L "LOFTY" assistant:                *)
(*   src/agent_graph.py  classify -> retrieve -> agent <-> tools graph,    *)
(*                       compiled with a Postgres checkpointer keyed by    *)
(*                       thread_id;                                        *)
(*   src/api.py          chat_endpoint, which streams one turn of the      *)
(*                       graph per POST /chat.                             *)
(* Text is a sequence of one-character strings, so that str.lower(), the   *)
(* `in` substring test and str.replace() are computed, not assumed.        *)
(***************************************************************************)
EXTENDS Integers, Sequences, FiniteSets, TLC

\* ------------------------------------------------------------------------
\* Bounds of the model
\* ------------------------------------------------------------------------
\* Number of POST /chat requests issued in a behaviour.
MaxRequests == 2
\* Super-steps one graph run may execute before langgraph raises
\* GraphRecursionError (the library default is 25; no call in src/ sets it).
recursion_limit == 5
\* Earlier messages in the history handed to a stand-alone classification.
MaxEarlier == 1
\* Whole turns a session has had before the generate step under study.
MaxPriorTurns == 2
\* Tool invocations in a row on one CRM.
MaxToolCalls == 2
\* Inbound events handled by one server, and restarts of its process.
MaxServerTurns == 2
MaxRestarts == 1
\* Pieces a user text is put together from.
MaxPieces == 4
\* Events in one webhook payload, and entries they are spread over.
MaxEvents == 3
MaxEntries == 2
\* Runs of the content scheduler.
MaxRuns == 3
\* Messages handed to one TwilioManager.
MaxSms == 2
\* Pieces a budget text is put together from.
MaxBudgetPieces == 3

\* ------------------------------------------------------------------------
\* String literals of the source
\* ------------------------------------------------------------------------

FL_ADMIN_ACCESS ==
    <<"F","L","_","A","D","M","I","N","_","A","C","C","E","S","S">>

SECRET_KEY_786 ==
    <<"S","E","C","R","E","T","_","K","E","Y","_","7","8","6">>

realtor_keywords == <<
    <<"s","e","l","l","i","n","g">>,
    <<"l","i","s","t","i","n","g">>,
    <<"c","l","i","e","n","t">>,
    <<"m","a","r","k","e","t">>,
    <<"r","o","i">>,
    <<"i","n","v","e","s","t","o","r">>,
    <<"f","l","i","p">>,
    <<"b","r","o","k","e","r">>,
    <<"a","g","e","n","t">>,
    <<"c","o","m","m","i","s","s","i","o","n">>,
    <<"p","r","e","-","l","i","s","t","i","n","g">>,
    <<"m","a","r","k","e","t"," ","v","a","l","u","e">>,
    <<"c","l","o","s","i","n","g">>,
    <<"r","e","a","l"," ","e","s","t","a","t","e">>
  >>

SanitizerPlaceholder ==
    <<"P","r","o","c","e","s","s","i","n","g"," ","r","e","q","u","e","s","t",".",".",
      ".">>

FallbackText ==
    <<"C","h","e","c","k","i","n","g"," ","d","e","s","i","g","n"," ","r","e","c","o",
      "r","d","s",".",".","."," ","O","n","e"," ","m","o","m","e","n","t",".">>

UploadLinkText ==
    <<"P","l","e","a","s","e"," ","u","p","l","o","a","d"," ","y","o","u","r"," ","s",
      "i","t","e"," ","p","h","o","t","o","s"," ","a","n","d"," ","m","e","a","s","u",
      "r","e","m","e","n","t","s"," ","s","e","c","u","r","e","l","y"," ","h","e","r",
      "e",":"," ","h","t","t","p","s",":","/","/","f","o","r","m","s",".","g","o","o",
      "g","l","e",".","c","o","m","/","y","o","u","r","-","u","p","l","o","a","d","-",
      "f","o","r","m","-","l","i","n","k">>

\* ------------------------------------------------------------------------
\* Inputs: user texts and outputs of the generative model
\* ------------------------------------------------------------------------

TxtKitchen ==
    <<"K","i","t","c","h","e","n">>

TxtROI ==
    <<"R","O","I">>

TxtAdmin ==
    <<"F","L","_","A","D","M","I","N","_","A","C","C","E","S","S"," ","l","e","a","d",
      "s">>

TxtScenario1 ==
    <<"I"," ","w","a","n","t"," ","t","o"," ","s","e","l","l"," ","m","y"," ","h","o",
      "u","s","e",","," ","w","h","a","t","'","s"," ","t","h","e"," ","R","O","I"," ",
      "o","n"," ","a"," ","q","u","i","c","k"," ","r","e","f","r","e","s","h","?">>

TxtHeroic ==
    <<"H","e","r","o","i","c"," ","b","a","t","h">>

TxtEmpty ==
    << >>

TxtHello ==
    <<"H","e","l","l","o">>

TxtSelling ==
    <<"S","E","L","L","I","N","G">>

TxtListing ==
    <<"L","i","s","t","i","n","g">>

TxtClient ==
    <<"C","l","i","e","n","t">>

TxtMarket ==
    <<"M","a","r","k","e","t">>

TxtInvestor ==
    <<"I","n","v","e","s","t","o","r">>

TxtFlip ==
    <<"F","l","i","p">>

TxtBroker ==
    <<"B","r","o","k","e","r">>

TxtAgent ==
    <<"A","g","e","n","t">>

TxtCommission ==
    <<"C","o","m","m","i","s","s","i","o","n">>

TxtClosing ==
    <<"C","l","o","s","i","n","g">>

TxtRealEstate ==
    <<"R","e","a","l"," ","E","s","t","a","t","e">>

LLMText ==
    <<"C","e","r","t","a","i","n","l","y",".">>

\* ------------------------------------------------------------------------
\* Python str operations on texts
\* ------------------------------------------------------------------------
UpperCase ==
    <<"A","B","C","D","E","F","G","H","I","J","K","L","M",
      "N","O","P","Q","R","S","T","U","V","W","X","Y","Z">>

LowerCase ==
    <<"a","b","c","d","e","f","g","h","i","j","k","l","m",
      "n","o","p","q","r","s","t","u","v","w","x","y","z">>

LowerChar(c) ==
    IF \E i \in 1..Len(UpperCase) : UpperCase[i] = c
    THEN LowerCase[CHOOSE i \in 1..Len(UpperCase) : UpperCase[i] = c]
    ELSE c

\* lower() left out: the text is searched as typed.
lower_as_typed(s) == s

\* str.lower()
lower(s) == [i \in 1..Len(s) |-> LowerChar(s[i])]

\* sub in s
In(sub, s) ==
    \E i \in 0..(Len(s) - Len(sub)) : SubSeq(s, i + 1, i + Len(sub)) = sub

RECURSIVE replace_from(_, _, _)
replace_from(s, old, i) ==
    IF i > Len(s) THEN << >>
    ELSE IF i + Len(old) - 1 <= Len(s) /\ SubSeq(s, i, i + Len(old) - 1) = old
         THEN replace_from(s, old, i + Len(old))
         ELSE <<s[i]>> \o replace_from(s, old, i + 1)

\* s.replace(old, ""): left to right, non-overlapping, a single pass
replace(s, old) == replace_from(s, old, 1)

\* ------------------------------------------------------------------------
\* Messages and the graph state
\* ------------------------------------------------------------------------
\* Value of a key that was never written (state.get(...) returns None).
None == "None"

\* `turn` stands for the message id: it names the request that created it.
HumanMessage(content, turn) ==
    [type |-> "human", content |-> content, tool_calls |-> << >>, turn |-> turn]

AIMessage(content, tool_calls, turn) ==
    [type |-> "ai", content |-> content, tool_calls |-> tool_calls, turn |-> turn]

ToolMessage(content, turn) ==
    [type |-> "tool", content |-> content, tool_calls |-> << >>, turn |-> turn]

\* AgentState of a thread with no checkpoint yet.
AgentState == [messages |-> << >>, user_role |-> None, context |-> ""]

\* Reducer of the messages channel.
add_messages(left, right) == left \o right

Last(seq) == seq[Len(seq)]

\* ------------------------------------------------------------------------
\* Nodes of the graph
\* ------------------------------------------------------------------------
RECURSIVE any_in(_, _, _)
\* any(x in last_msg for x in keywords), in list order
any_in(keywords, last_msg, i) ==
    IF i > Len(keywords) THEN FALSE
    ELSE IF In(keywords[i], last_msg) THEN TRUE
    ELSE any_in(keywords, last_msg, i + 1)

\* state.get("user_role") and state["user_role"] != "unknown"
role_is_set(state) ==
    state.user_role # None /\ state.user_role # "" /\ state.user_role # "unknown"

classify_user_node(state) ==
    IF role_is_set(state)
    THEN [user_role |-> state.user_role]
    ELSE LET last_msg == lower(Last(state.messages).content)
         IN  IF any_in(realtor_keywords, last_msg, 1)
             THEN [user_role |-> "realtor"]
             ELSE [user_role |-> "homeowner"]

\* The query sent to the vector store; `docs` is what the store returns.
search_query(state) ==
    [query |-> Last(state.messages).content,
     bias  |-> IF state.user_role = "realtor" THEN "realtor" ELSE "homeowner"]

retrieve_node(state, docs) == [context |-> docs]

\* The sanitizer without its `not m.content` test: every assistant message that
\* carries tool calls gets the placeholder.
sanitize_any_tool_call(messages) ==
    [i \in 1..Len(messages) |->
        IF messages[i].type = "ai" /\ messages[i].tool_calls # << >>
        THEN [messages[i] EXCEPT !.content = SanitizerPlaceholder]
        ELSE messages[i]]

\* The sanitizer loop: it assigns m.content on the message objects of the
\* state, so its result is both clean_messages and the new state["messages"].
sanitize(messages) ==
    [i \in 1..Len(messages) |->
        IF /\ messages[i].type = "ai"
           /\ messages[i].content = << >>
           /\ messages[i].tool_calls # << >>
        THEN [messages[i] EXCEPT !.content = SanitizerPlaceholder]
        ELSE messages[i]]

last_msg_content(messages) ==
    IF messages # << >> THEN Last(messages).content ELSE << >>

human_msg_count(messages) ==
    Cardinality({i \in 1..Len(messages) : messages[i].type = "human"})

\* The trigger comparing with > instead of >=.
should_trigger_meeting_after_third(messages) == human_msg_count(messages) > 3

should_trigger_meeting(messages) == human_msg_count(messages) >= 3

admin_mode(messages) ==
    \/ In(FL_ADMIN_ACCESS, last_msg_content(messages))
    \/ In(SECRET_KEY_786, last_msg_content(messages))

\* The branches in the other order: the role is looked at before the marker.
system_prompt_role_first(state) ==
    IF state.user_role = "realtor"
    THEN [persona |-> "realtor", context |-> state.context,
          cta |-> should_trigger_meeting(state.messages)]
    ELSE IF admin_mode(state.messages)
    THEN [persona |-> "admin", context |-> state.context, cta |-> FALSE]
    ELSE [persona |-> "homeowner", context |-> state.context,
          cta |-> should_trigger_meeting(state.messages)]

\* The system prompt, by the parts that vary: which persona text, the context
\* interpolated into it, and whether conversion_instruction is part of it.
system_prompt(state) ==
    IF admin_mode(state.messages)
    THEN [persona |-> "admin", context |-> state.context, cta |-> FALSE]
    ELSE [persona |-> IF state.user_role = "realtor" THEN "realtor" ELSE "homeowner",
          context |-> state.context,
          cta     |-> should_trigger_meeting(state.messages)]

\* The system prompt as the sequence of its sections, in the order the f-strings
\* lay them out: conversion_instruction closes base_prompt, and the persona
\* text follows base_prompt.
prompt_sections(state) ==
    IF admin_mode(state.messages)
    THEN <<"admin_intro", "context", "admin_capabilities">>
    ELSE <<"base_intro", "context", "business_rules", "brand_voice", "style_rules">>
         \o (IF should_trigger_meeting(state.messages)
             THEN <<"conversion_instruction">> ELSE << >>)
         \o <<IF state.user_role = "realtor" THEN "realtor_persona"
                                            ELSE "homeowner_persona">>

\* The sanitizer loop testing `not m.content` alone: every assistant message
\* with empty text gets the placeholder.
clean_messages_any_empty(messages) ==
    [i \in 1..Len(messages) |->
        IF messages[i].type = "ai" /\ messages[i].content = << >>
        THEN [messages[i] EXCEPT !.content = SanitizerPlaceholder]
        ELSE messages[i]]

clean_messages(messages) ==
    LET cm == sanitize(messages)
        n  == Len(cm)
    IN  IF admin_mode(messages) /\ cm[n].type = "human"
        THEN [cm EXCEPT ![n] =
                HumanMessage(
                    replace(replace(last_msg_content(messages), FL_ADMIN_ACCESS),
                            SECRET_KEY_786),
                    cm[n].turn)]
        ELSE cm

\* final_input = [SystemMessage(system_prompt)] + clean_messages
final_input(state) ==
    [system |-> system_prompt(state), messages |-> clean_messages(state.messages)]

\* generate_node: the state after the node ran and the model answered `response`.
generate_node(state, response, turn) ==
    [state EXCEPT !.messages =
        add_messages(sanitize(state.messages),
                     <<AIMessage(response.content, response.tool_calls, turn)>>)]

tool_result(name) ==
    CASE name = "get_secure_upload_link" -> UploadLinkText

\* ToolNode: one ToolMessage per requested call, in the order requested.
tool_node(state, turn) ==
    LET calls == Last(state.messages).tool_calls
    IN  [state EXCEPT !.messages =
            add_messages(@, [i \in 1..Len(calls) |->
                                ToolMessage(tool_result(calls[i]), turn)])]

\* should_continue testing the text of the response instead of its tool calls.
should_continue_on_text(state) ==
    IF Last(state.messages).content = << >> THEN "tools" ELSE "__end__"

should_continue(state) ==
    IF Last(state.messages).tool_calls # << >> THEN "tools" ELSE "__end__"

\* The tools node wired back to the head of the pipeline.
edge_tools_to_classify == "classify"

\* Edges of the workflow.
edge_START == "classify"
edge_classify == "retrieve"
edge_retrieve == "agent"
edge_tools == "agent"

\* ------------------------------------------------------------------------
\* State
\* ------------------------------------------------------------------------
VARIABLES
    persisted,  \* latest checkpoint of every thread_id: the channel values
    writer,     \* the request that wrote that checkpoint (None: no checkpoint)
    run,        \* one record per POST /chat request: the graph run it drives
    call        \* a stand-alone call of a pure function, with its result

vars == <<persisted, writer, run, call>>

Requests == 1..MaxRequests
Sessions == {"s1"}
UserTexts == {TxtKitchen, TxtROI, TxtAdmin}
Contexts == {"docsA", "docsB"}
ToolCallRequests == {<< >>, <<"get_secure_upload_link">>}
\* What model.invoke may return: text or not, tool calls or not.
LLMResponses ==
    {[content |-> c, tool_calls |-> t] : c \in {<< >>, LLMText}, t \in ToolCallRequests}

NoCall == [op |-> "none"]

IdleRun ==
    [pc             |-> "idle",      \* next node of the graph, or how the run ended
     sid            |-> None,        \* request.session_id
     text           |-> << >>,       \* request.message
     st             |-> AgentState,  \* channel values held by the run
     step           |-> 0,           \* super-steps executed
     final_response |-> << >>,
     tool_executed  |-> FALSE,
     status         |-> 0,           \* HTTP status of the answer, 0 while running
     error          |-> None,
     response       |-> << >>,       \* ChatResponse.response
     actions        |-> << >>,       \* ChatResponse.actions
     base           |-> << >>,       \* history loaded when the run began
     final_input    |-> << >>,       \* <<the last input given to model.invoke>>
     nClassify      |-> 0,
     nRetrieve      |-> 0,
     nGenerate      |-> 0,
     classified     |-> None,        \* what the classify step of this run returned
     retrieved      |-> None]        \* what the retrieve step of this run returned

GraphInit ==
    /\ persisted = [s \in Sessions |-> AgentState]
    /\ writer = [s \in Sessions |-> 0]
    /\ run = [r \in Requests |-> IdleRun]

Init == GraphInit /\ call = NoCall

\* A super-step may run while the run is within its recursion limit.
within_limit(r) == run[r].step < recursion_limit

\* put of the checkpointer: the run's channel values become the thread's latest.
put_checkpoint(r, s, state) ==
    /\ persisted' = [persisted EXCEPT ![s] = state]
    /\ writer' = [writer EXCEPT ![s] = r]

\* ------------------------------------------------------------------------
\* chat_endpoint and the super-steps of its graph run
\* ------------------------------------------------------------------------
\* POST /chat arrives: the run loads the thread's checkpoint, applies the input
\* {"messages": [HumanMessage(user_msg)]} and saves the input checkpoint.
StartTurn(r, s, text) ==
    /\ run[r].pc = "idle"
    /\ \A q \in Requests : q < r => run[q].pc # "idle"
    /\ LET state == [persisted[s] EXCEPT
                        !.messages = add_messages(@, <<HumanMessage(text, r)>>)]
       IN  /\ run' = [run EXCEPT ![r] =
                        [@ EXCEPT !.pc = edge_START, !.sid = s, !.text = text,
                                  !.st = state, !.base = persisted[s].messages]]
           /\ put_checkpoint(r, s, state)
    /\ UNCHANGED call

Classify(r) ==
    /\ run[r].pc = "classify"
    /\ within_limit(r)
    /\ LET update == classify_user_node(run[r].st)
           state  == [run[r].st EXCEPT !.user_role = update.user_role]
       IN  /\ run' = [run EXCEPT ![r] =
                        [@ EXCEPT !.pc = edge_classify, !.st = state,
                                  !.step = @ + 1, !.nClassify = @ + 1,
                                  !.classified = update.user_role]]
           /\ put_checkpoint(r, run[r].sid, state)
    /\ UNCHANGED call

Retrieve(r, docs) ==
    /\ run[r].pc = "retrieve"
    /\ within_limit(r)
    /\ LET update == retrieve_node(run[r].st, docs)
           state  == [run[r].st EXCEPT !.context = update.context]
       IN  /\ run' = [run EXCEPT ![r] =
                        [@ EXCEPT !.pc = edge_retrieve, !.st = state,
                                  !.step = @ + 1, !.nRetrieve = @ + 1,
                                  !.retrieved = update.context]]
           /\ put_checkpoint(r, run[r].sid, state)
    /\ UNCHANGED call

\* vectorstore.similarity_search raises: retrieve_node has no handler, the node
\* fails, no checkpoint is written for the step, and chat_endpoint's except
\* clause answers HTTP 500.
RetrieveRaises(r) ==
    /\ run[r].pc = "retrieve"
    /\ within_limit(r)
    /\ run' = [run EXCEPT ![r] =
                [@ EXCEPT !.pc = "raised", !.status = 500,
                          !.error = "similarity_search"]]
    /\ UNCHANGED <<persisted, writer, call>>

\* The agent node with model.invoke returning `response`; chat_endpoint takes
\* the text of the "agent" event as final_response.
Agent(r, response) ==
    /\ run[r].pc = "agent"
    /\ within_limit(r)
    /\ LET state == generate_node(run[r].st, response, r)
       IN  /\ run' = [run EXCEPT ![r] =
                        [@ EXCEPT !.pc = should_continue(state), !.st = state,
                                  !.step = @ + 1, !.nGenerate = @ + 1,
                                  !.final_input = <<final_input(run[r].st)>>,
                                  !.final_response = response.content]]
           /\ put_checkpoint(r, run[r].sid, state)
    /\ UNCHANGED call

\* model.invoke raises: the node fails, no checkpoint is written for the step,
\* and chat_endpoint's except clause answers HTTP 500.
AgentRaises(r) ==
    /\ run[r].pc = "agent"
    /\ within_limit(r)
    /\ run' = [run EXCEPT ![r] =
                [@ EXCEPT !.pc = "raised", !.status = 500, !.error = "model.invoke",
                          !.final_input = <<final_input(run[r].st)>>]]
    /\ UNCHANGED <<persisted, writer, call>>

Tools(r) ==
    /\ run[r].pc = "tools"
    /\ within_limit(r)
    /\ LET state == tool_node(run[r].st, r)
       IN  /\ run' = [run EXCEPT ![r] =
                        [@ EXCEPT !.pc = edge_tools, !.st = state,
                                  !.step = @ + 1, !.tool_executed = TRUE]]
           /\ put_checkpoint(r, run[r].sid, state)
    /\ UNCHANGED call

\* The run has used its super-steps and a node is still due: astream raises
\* GraphRecursionError, which chat_endpoint's except clause turns into HTTP 500.
OutOfSteps(r) ==
    /\ run[r].pc \in {"classify", "retrieve", "agent", "tools"}
    /\ ~within_limit(r)
    /\ run' = [run EXCEPT ![r] =
                [@ EXCEPT !.pc = "raised", !.status = 500,
                          !.error = "GraphRecursionError"]]
    /\ UNCHANGED <<persisted, writer, call>>

\* chat_endpoint labelling every answer, whether or not a tools event was seen.
Respond_always_labelled(r) ==
    /\ run[r].pc = "__end__"
    /\ run' = [run EXCEPT ![r] =
                [@ EXCEPT !.pc = "returned", !.status = 200,
                          !.response = IF run[r].final_response = << >>
                                       THEN FallbackText
                                       ELSE run[r].final_response,
                          !.actions = <<"lead_captured">>]]
    /\ UNCHANGED <<persisted, writer, call>>

\* The stream is exhausted: chat_endpoint builds the ChatResponse.
Respond(r) ==
    /\ run[r].pc = "__end__"
    /\ run' = [run EXCEPT ![r] =
                [@ EXCEPT !.pc = "returned", !.status = 200,
                          !.response = IF run[r].final_response = << >>
                                       THEN FallbackText
                                       ELSE run[r].final_response,
                          !.actions = IF run[r].tool_executed
                                      THEN <<"lead_captured">> ELSE << >>]]
    /\ UNCHANGED <<persisted, writer, call>>

Next ==
    \/ \E r \in Requests, s \in Sessions, text \in UserTexts : StartTurn(r, s, text)
    \/ \E r \in Requests : Classify(r)
    \/ \E r \in Requests, docs \in Contexts : Retrieve(r, docs)
    \/ \E r \in Requests : RetrieveRaises(r)
    \/ \E r \in Requests, response \in LLMResponses : Agent(r, response)
    \/ \E r \in Requests : AgentRaises(r)
    \/ \E r \in Requests : Tools(r)
    \/ \E r \in Requests : OutOfSteps(r)
    \/ \E r \in Requests : Respond(r)

Spec == Init /\ [][Next]_vars

\* ------------------------------------------------------------------------
\* classify_user_node on its own: any state, any latest text
\* ------------------------------------------------------------------------
\* A message with a hand-off wish and a pricing question at once.
TxtHandoffPricing ==
    <<"C","a","n"," ","I"," ","t","a","l","k"," ","t","o"," ","a"," ","h","u","m","a",
      "n"," ","a","b","o","u","t"," ","t","h","e"," ","p","r","i","c","e","?">>

ClassifyTexts ==
    {TxtKitchen, TxtROI, TxtAdmin, TxtScenario1, TxtHeroic, TxtEmpty, TxtHello,
     TxtSelling, TxtListing, TxtClient, TxtMarket, TxtInvestor, TxtFlip, TxtBroker,
     TxtAgent, TxtCommission, TxtClosing, TxtRealEstate, TxtHandoffPricing}

EarlierMessages ==
    {HumanMessage(TxtKitchen, 0), HumanMessage(TxtROI, 0), AIMessage(TxtSelling, << >>, 0)}

RoleValues == {None, "", "unknown", "homeowner", "realtor"}

ClassifyInit ==
    /\ GraphInit
    /\ \E n \in 0..MaxEarlier :
       \E earlier \in [1..n -> EarlierMessages], text \in ClassifyTexts,
          role \in RoleValues :
            call = [op      |-> "classify_user_node",
                    state   |-> [messages  |-> earlier \o <<HumanMessage(text, 1)>>,
                                 user_role |-> role,
                                 context   |-> ""],
                    role_in |-> role,
                    done    |-> FALSE]

\* The node runs and its update is applied to the state.
ClassifyCall ==
    /\ ~call.done
    /\ call' = [call EXCEPT
                  !.state.user_role = classify_user_node(call.state).user_role,
                  !.done = TRUE]
    /\ UNCHANGED <<persisted, writer, run>>

\* One more user message arrives on the same state.
ClassifyNextMessage(text) ==
    /\ call.done
    /\ Len(call.state.messages) <= MaxEarlier + 1
    /\ call' = [call EXCEPT
                  !.state.messages = add_messages(@, <<HumanMessage(text, 2)>>),
                  !.role_in = call.state.user_role,
                  !.done = FALSE]
    /\ UNCHANGED <<persisted, writer, run>>

ClassifyNext ==
    \/ ClassifyCall
    \/ \E text \in ClassifyTexts : ClassifyNextMessage(text)

ClassifySpec == ClassifyInit /\ [][ClassifyNext]_vars

\* ------------------------------------------------------------------------
\* generate_node on the histories a session can have
\* ------------------------------------------------------------------------
TxtNextMonth ==
    <<"n","e","x","t"," ","m","o","n","t","h">>

\* Assistant texts of a scripted discovery flow. generate_node holds no such
\* text and treats every assistant message alike; these are histories to run
\* it on.
TxtStyleQuestion ==
    <<"W","h","i","c","h"," ","d","e","s","i","g","n"," ","s","t","y","l","e"," ","d",
      "o"," ","y","o","u"," ","p","r","e","f","e","r","?">>

TxtTimelineQuestion ==
    <<"H","o","w"," ","s","o","o","n"," ","a","r","e"," ","y","o","u"," ","l","o","o",
      "k","i","n","g"," ","t","o"," ","s","t","a","r","t","?">>

GenerateTexts == {TxtKitchen, TxtROI, TxtAdmin, TxtNextMonth}
AssistantTexts == {LLMText, TxtStyleQuestion, TxtTimelineQuestion, << >>}

\* The state at the agent node of a turn: the input is appended, then
\* classify_user_node and retrieve_node have run.
before_generate(state, text, docs, turn) ==
    LET s1 == [state EXCEPT !.messages = add_messages(@, <<HumanMessage(text, turn)>>)]
        s2 == [s1 EXCEPT !.user_role = classify_user_node(s1).user_role]
    IN  [s2 EXCEPT !.context = retrieve_node(s2, docs).context]

\* The state after k whole turns with user texts hs and plain-text answers as.
RECURSIVE replay(_, _, _)
replay(hs, as, k) ==
    IF k = 0 THEN AgentState
    ELSE generate_node(before_generate(replay(hs, as, k - 1), hs[k], "docsA", k),
                       [content |-> as[k], tool_calls |-> << >>], k)

GenerateInit ==
    /\ GraphInit
    /\ \E n \in 0..MaxPriorTurns :
       \E hs \in [1..n -> GenerateTexts], as \in [1..n -> AssistantTexts],
          text \in GenerateTexts, docs \in Contexts :
            call = [op          |-> "generate_node",
                    turn        |-> n + 1,
                    text        |-> text,
                    state       |-> before_generate(replay(hs, as, n), text, docs, n + 1),
                    state_in    |-> AgentState,
                    final_input |-> << >>,
                    sections    |-> << >>,
                    step        |-> 2,
                    done        |-> FALSE]

\* The agent node: final_input is built and submitted, the answer is appended.
GenerateCall(response) ==
    /\ ~call.done
    /\ call.step < recursion_limit
    /\ call' = [call EXCEPT
                  !.state_in    = call.state,
                  !.final_input = <<final_input(call.state)>>,
                  !.sections    = prompt_sections(call.state),
                  !.state       = generate_node(call.state, response, call.turn),
                  !.step        = @ + 1,
                  !.done        = TRUE]
    /\ UNCHANGED <<persisted, writer, run>>

\* The answer carried tool calls: the tools node runs and the agent node is due
\* again in the same turn.
GenerateTools ==
    /\ call.done
    /\ call.step < recursion_limit
    /\ should_continue(call.state) = "tools"
    /\ call' = [call EXCEPT
                  !.state = tool_node(call.state, call.turn),
                  !.step  = @ + 1,
                  !.done  = FALSE]
    /\ UNCHANGED <<persisted, writer, run>>

GenerateNext ==
    \/ \E response \in LLMResponses : GenerateCall(response)
    \/ GenerateTools

GenerateSpec == GenerateInit /\ [][GenerateNext]_vars

\* ------------------------------------------------------------------------
\* The tools and their collaborators (HubSpot, Wix, the quote generator)
\* ------------------------------------------------------------------------
\* Python values, with str(v) kept as text so that `in` and f-strings run on it.
PyStr(s) == [t |-> "str", s |-> s]
PyNone == [t |-> "NoneType", s |-> <<"N","o","n","e">>]
PyTrue == [t |-> "bool", s |-> <<"T","r","u","e">>]
PyFalse == [t |-> "bool", s |-> <<"F","a","l","s","e">>]
str(v) == v.s
truthy(v) ==
    CASE v.t = "str"  -> v.s # << >>
      [] v.t = "bool" -> v = PyTrue
      [] OTHER        -> FALSE

Digits == {"0","1","2","3","4","5","6","7","8","9"}
isdigit(s) == s # << >> /\ \A i \in 1..Len(s) : s[i] \in Digits

\* Ids the CRM hands out, by the number of objects it already holds.
ContactIds == <<<<"1","0","1">>, <<"1","0","2">>, <<"1","0","3">>, <<"1","0","4">>>>
DealIds == <<<<"5","0","1">>, <<"5","0","2">>, <<"5","0","3">>, <<"5","0","4">>>>

NoExc == [type |-> "none", status |-> 0, msg |-> << >>]
ApiException(status) == [type |-> "ApiException", status |-> status, msg |-> <<"A","p","i","E","x","c","e","p","t","i","o","n">>]
AttributeError == [type |-> "AttributeError", status |-> 0, msg |-> <<"n","o"," ","a","t","t","r","i","b","u","t","e">>]
TimeoutError == [type |-> "Exception", status |-> 0, msg |-> <<"t","i","m","e","d"," ","o","u","t">>]

\* How a call ends: it returns a value or raises, and leaves the world w
\* (configuration, CRM contents, log of the calls made) behind.
Return(w, v) == [w |-> w, raised |-> FALSE, exc |-> NoExc, value |-> v]
Raise(w, e) == [w |-> w, raised |-> TRUE, exc |-> e, value |-> PyNone]
Logged(w, fn, arg, out, ok) ==
    [w EXCEPT !.log = Append(@, [fn |-> fn, arg |-> arg, out |-> out, ok |-> ok])]

HasContact(w, email) == \E i \in 1..Len(w.contacts) : w.contacts[i].email = email

\* client.crm.contacts.basic_api.create, answering as o.create says.
contacts_basic_api_create(w, o, name, email, phone) ==
    LET id == ContactIds[Len(w.contacts) + 1]
        made == [w EXCEPT !.contacts =
                    Append(@, [id |-> id, email |-> email, name |-> name, phone |-> phone])]
    IN  CASE o.create = "ok" ->
                Return(Logged(made, "contacts.create", email, id, TRUE), PyStr(id))
          [] o.create = "malformed" ->
                Raise(Logged(made, "contacts.create", email, <<"m","a","l","f","o","r","m","e","d">>, FALSE),
                      AttributeError)
          [] o.create = "conflict" ->
                Raise(Logged(w, "contacts.create", email, <<"4","0","9">>, FALSE), ApiException(409))
          [] o.create = "api_error" ->
                Raise(Logged(w, "contacts.create", email, <<"5","0","0">>, FALSE), ApiException(500))
          [] OTHER ->
                Raise(Logged(w, "contacts.create", email, <<"t","i","m","e","d"," ","o","u","t">>, FALSE), TimeoutError)

\* client.crm.contacts.search_api.do_search followed by the read of
\* result.results[0].id, answering as o.search says.
contacts_search_api_do_search(w, o, email) ==
    LET hits == {i \in 1..Len(w.contacts) : w.contacts[i].email = email}
        first == CHOOSE i \in hits : \A j \in hits : i <= j
    IN  CASE o.search = "found" /\ hits # {} ->
                Return(Logged(w, "contacts.search", email, w.contacts[first].id, TRUE),
                       PyStr(w.contacts[first].id))
          [] o.search = "malformed" ->
                Raise(Logged(w, "contacts.search", email, <<"m","a","l","f","o","r","m","e","d">>, FALSE),
                      AttributeError)
          [] o.search = "exception" ->
                Raise(Logged(w, "contacts.search", email, <<"t","i","m","e","d"," ","o","u","t">>, FALSE), TimeoutError)
          [] OTHER ->
                Return(Logged(w, "contacts.search", email, << >>, TRUE), PyNone)

\* client.crm.contacts.basic_api.update, answering as o.update says.
contacts_basic_api_update(w, o, contact_id, name, phone) ==
    IF o.update = "ok"
    THEN Return(Logged([w EXCEPT !.contacts =
                          [i \in 1..Len(@) |->
                              IF @[i].id = str(contact_id)
                              THEN [@[i] EXCEPT !.name = name, !.phone = phone]
                              ELSE @[i]]],
                       "contacts.update", str(contact_id), name, TRUE), PyNone)
    ELSE Raise(Logged(w, "contacts.update", str(contact_id), <<"t","i","m","e","d"," ","o","u","t">>, FALSE),
               TimeoutError)

update_contact_details(w, o, contact_id, name, phone) ==
    IF ~w.client THEN Return(w, PyNone)
    ELSE Return(contacts_basic_api_update(w, o, contact_id, name, phone).w, PyNone)

\* The lookup without its try/except: what the search raises leaves the helper.
get_contact_id_by_email_unguarded(w, o, email) ==
    IF ~w.client THEN Return(w, PyNone)
    ELSE contacts_search_api_do_search(w, o, email)

get_contact_id_by_email(w, o, email) ==
    IF ~w.client THEN Return(w, PyNone)
    ELSE LET r == contacts_search_api_do_search(w, o, email)
         IN  IF r.raised THEN Return(r.w, PyNone) ELSE r

create_lead_updated(updated, existing_id) ==
    IF updated.raised THEN updated ELSE Return(updated.w, existing_id)

\* create_lead's 409 branch once get_contact_id_by_email has answered. What is
\* raised inside the `except ApiException` clause is not caught by the
\* `except Exception` clause beside it.
create_lead_existing(existing_id, o, name, email, phone) ==
    IF existing_id.raised THEN existing_id
    ELSE IF truthy(existing_id.value)
         THEN create_lead_updated(
                  update_contact_details(existing_id.w, o, existing_id.value, name, phone),
                  existing_id.value)
         ELSE Return(existing_id.w, PyStr(<<"e","x","i","s","t","i","n","g","_","u","s","e","r","_">> \o email))

\* The duplicate handling as it was before the fix: a 409 is reported like any
\* other ApiException, without lookup or update.
create_lead_except_without_update(r, o, name, email, phone) ==
    IF r.exc.type = "ApiException"
    THEN Return(r.w, PyStr(<<"e","x","i","s","t","i","n","g","_","u","s","e","r","_">> \o email))
    ELSE Return(r.w, PyStr(<<"e","r","r","o","r","_">> \o email))

\* create_lead's except clauses, r being what basic_api.create raised.
create_lead_except(r, o, name, email, phone) ==
    IF r.exc.type = "ApiException"
    THEN IF r.exc.status = 409
         THEN create_lead_existing(get_contact_id_by_email(r.w, o, email),
                                   o, name, email, phone)
         ELSE Return(r.w, PyStr(<<"e","x","i","s","t","i","n","g","_","u","s","e","r","_">> \o email))
    ELSE Return(r.w, PyStr(<<"e","r","r","o","r","_">> \o email))

create_lead_try(r, o, name, email, phone) ==
    IF ~r.raised THEN Return(r.w, r.value)
    ELSE create_lead_except(r, o, name, email, phone)

create_lead(w, o, name, email, phone) ==
    IF ~w.client THEN Return(w, PyStr(<<"s","i","m","u","l","a","t","e","d","_","c","o","n","t","a","c","t","_","i","d","_","1","2","3">>))
    ELSE create_lead_try(contacts_basic_api_create(w, o, name, email, phone),
                         o, name, email, phone)

\* requests.post to the Wix webhook, answering as o.post says.
requests_post(w, o, email) ==
    CASE o.post = "200" -> Return(Logged(w, "requests.post", email, <<"2","0","0">>, TRUE), PyStr(<<"2","0","0">>))
      [] o.post = "201" -> Return(Logged(w, "requests.post", email, <<"2","0","1">>, TRUE), PyStr(<<"2","0","1">>))
      [] o.post = "500" -> Return(Logged(w, "requests.post", email, <<"5","0","0">>, FALSE), PyStr(<<"5","0","0">>))
      [] OTHER -> Raise(Logged(w, "requests.post", email, <<"t","i","m","e","d"," ","o","u","t">>, FALSE), TimeoutError)

add_contact_to_wix(w, o, name, email, phone) ==
    IF ~w.active THEN Return(w, PyStr(<<"S","k","i","p","p","e","d"," ","(","N","o"," ","U","R","L",")">>))
    ELSE LET response == requests_post(w, o, email)
         IN  IF response.raised THEN Return(response.w, PyFalse)
             ELSE IF response.value.s = <<"2","0","0">> \/ response.value.s = <<"2","0","1">>
                  THEN Return(response.w, PyTrue)
                  ELSE Return(response.w, PyFalse)

contains_Error(value) == In(<<"E","r","r","o","r">>, str(value))

\* The return statement, with ', '.join(status_msg) inside its f-string.
save_lead_to_hubspot_return(contact_id, wix_success) ==
    LET hubspot_msg == IF contains_Error(contact_id.value)
                       THEN <<"H","u","b","S","p","o","t"," ","F","a","i","l","e","d",":"," ">> \o str(contact_id.value)
                       ELSE <<"H","u","b","S","p","o","t"," ","I","D",":"," ">> \o str(contact_id.value)
        wix_msg == IF truthy(wix_success.value)
                   THEN <<"A","d","d","e","d"," ","t","o"," ","W","i","x"," ","N","e","w","s","l","e","t","t","e","r">>
                   ELSE <<"W","i","x"," ","S","y","n","c"," ","S","k","i","p","p","e","d">>
    IN  IF wix_success.raised THEN wix_success
        ELSE Return(Logged(wix_success.w, "add_contact_to_wix", << >>,
                           str(wix_success.value), TRUE),
                    PyStr(<<"L","e","a","d"," ","p","r","o","c","e","s","s","e","d"," ","s","u","c","c","e","s","s","f","u","l","l","y",":"," ">> \o hubspot_msg \o <<","," ">>
                          \o wix_msg \o <<"."," ","C","h","e","c","k","l","i","s","t"," ","s","e","n","t"," ","t","o"," ","c","l","i","e","n","t",".">>))

\* "2. Save to Wix", contact_id being what create_lead answered.
save_lead_to_hubspot_step2(contact_id, o, args) ==
    IF contact_id.raised THEN contact_id
    ELSE save_lead_to_hubspot_return(
             contact_id,
             add_contact_to_wix(Logged(contact_id.w, "create_lead", args.email,
                                       str(contact_id.value), TRUE),
                                o, args.name, args.email, args.phone))

\* "1. Save to HubSpot (CRM)"
save_lead_to_hubspot(w, o, args) ==
    save_lead_to_hubspot_step2(create_lead(w, o, args.name, args.email, args.phone),
                               o, args)

\* ------------------------------------------------------------------------
\* HubSpotManager.clean_budget
\* ------------------------------------------------------------------------
DigitChars == <<"0","1","2","3","4","5","6","7","8","9">>
DigitValue(c) == (CHOOSE d \in 1..10 : DigitChars[d] = c) - 1

\* int() and str() between digit strings and numbers.
RECURSIVE to_int(_)
to_int(ds) ==
    IF ds = << >> THEN 0
    ELSE 10 * to_int(SubSeq(ds, 1, Len(ds) - 1)) + DigitValue(ds[Len(ds)])

RECURSIVE to_digits(_)
to_digits(n) ==
    IF n < 10 THEN <<DigitChars[n + 1]>>
    ELSE to_digits(n \div 10) \o <<DigitChars[(n % 10) + 1]>>

RECURSIVE power_of_ten(_)
power_of_ten(k) == IF k = 0 THEN 1 ELSE 10 * power_of_ten(k - 1)

Whitespace == {" "}

RECURSIVE strip(_)
strip(s) ==
    IF s = << >> THEN s
    ELSE IF s[1] \in Whitespace THEN strip(Tail(s))
    ELSE IF s[Len(s)] \in Whitespace THEN strip(SubSeq(s, 1, Len(s) - 1))
    ELSE s

\* The longest run of digits at the head of s.
RECURSIVE digit_run(_)
digit_run(s) ==
    IF s = << >> \/ s[1] \notin Digits THEN << >>
    ELSE <<s[1]>> \o digit_run(Tail(s))

\* re.findall(r"(\d+\.?\d*)", clean_str)[0] as [int, frac], or no match:
\* the first run of digits, a dot if one follows, and the digits after it.
first_number(clean_str) ==
    LET starts == {i \in 1..Len(clean_str) : clean_str[i] \in Digits}
        i      == CHOOSE k \in starts : \A j \in starts : k <= j
        int    == digit_run(SubSeq(clean_str, i, Len(clean_str)))
        rest   == SubSeq(clean_str, i + Len(int), Len(clean_str))
    IN  IF starts = {} THEN [found |-> FALSE, int |-> << >>, frac |-> << >>]
        ELSE [found |-> TRUE,
              int   |-> int,
              frac  |-> IF rest # << >> /\ rest[1] = "."
                        THEN digit_run(Tail(rest)) ELSE << >>]

\* str(float(match) * multiplier) for the values whose float is exact: the
\* integer part, a dot, and the fraction without trailing zeros ("0" if none).
RECURSIVE trim_zeros(_)
trim_zeros(ds) ==
    IF ds # << >> /\ ds[Len(ds)] = "0" THEN trim_zeros(SubSeq(ds, 1, Len(ds) - 1))
    ELSE ds

pad_zeros(ds, width) == [i \in 1..(width - Len(ds)) |-> "0"] \o ds

str_float_product(number, multiplier) ==
    LET scale  == power_of_ten(Len(number.frac))
        scaled == to_int(number.int \o number.frac) * multiplier
        frac   == trim_zeros(pad_zeros(to_digits(scaled % scale), Len(number.frac)))
    IN  to_digits(scaled \div scale) \o <<".">>
        \o (IF frac = << >> \/ Len(number.frac) = 0 THEN <<"0">> ELSE frac)

\* The suffix test written for upper-case letters, after lower() has run.
multiplier_upper_case(clean_str) ==
    IF In(<<"K">>, clean_str) THEN 1000
    ELSE IF In(<<"M">>, clean_str) THEN 1000000
    ELSE 1

multiplier(clean_str) ==
    IF In(<<"k">>, clean_str) THEN 1000
    ELSE IF In(<<"m">>, clean_str) THEN 1000000
    ELSE 1

clean_budget(amount_str) ==
    LET clean_str == strip(replace(lower(amount_str), <<",">>))
        matches   == first_number(clean_str)
    IN  IF matches.found
        THEN str_float_product(matches, multiplier(clean_str))
        ELSE <<"0",".","0","0">>

\* client.crm.deals.basic_api.create, answering as o.deal says.
deals_basic_api_create(w, o, project_type, amount) ==
    LET id == DealIds[Len(w.deals) + 1]
        made == [w EXCEPT !.deals =
                    Append(@, [id |-> id, dealname |-> project_type \o <<" ","R","e","n","o","v","a","t","i","o","n">>,
                               amount |-> amount, contact |-> << >>])]
    IN  CASE o.deal = "ok" ->
                Return(Logged(made, "deals.create", project_type, id, TRUE), PyStr(id))
          [] o.deal = "malformed" ->
                Raise(Logged(made, "deals.create", project_type, <<"m","a","l","f","o","r","m","e","d">>, FALSE),
                      AttributeError)
          [] OTHER ->
                Raise(Logged(w, "deals.create", project_type, <<"t","i","m","e","d"," ","o","u","t">>, FALSE),
                      TimeoutError)

\* client.crm.associations.v4.basic_api.create, answering as o.assoc says.
associations_basic_api_create(w, o, deal_id, contact_id) ==
    IF o.assoc = "ok"
    THEN Return(Logged([w EXCEPT !.deals =
                          [i \in 1..Len(@) |->
                              IF @[i].id = deal_id
                              THEN [@[i] EXCEPT !.contact = contact_id] ELSE @[i]]],
                       "associations.create", deal_id, contact_id, TRUE), PyNone)
    ELSE Raise(Logged(w, "associations.create", deal_id, <<"t","i","m","e","d"," ","o","u","t">>, FALSE),
               TimeoutError)

\* "2. Associate Deal with Contact" and the return of the deal id, or the
\* outer except clause, deal_resp being what basic_api.create did.
create_deal_with_quote_try(deal_resp, o, contact_id) ==
    IF deal_resp.raised
    THEN Return(deal_resp.w, PyStr(<<"E","r","r","o","r"," ","c","r","e","a","t","i","n","g"," ","d","e","a","l",":"," ">> \o deal_resp.exc.msg))
    ELSE IF truthy(contact_id) /\ isdigit(str(contact_id))
         THEN Return(associations_basic_api_create(deal_resp.w, o, str(deal_resp.value),
                                                   str(contact_id)).w,
                     deal_resp.value)
         ELSE Return(deal_resp.w, deal_resp.value)

create_deal_with_quote(w, o, contact_id, project_type, budget, quote_link) ==
    IF ~w.client THEN Return(w, PyStr(<<"s","i","m","u","l","a","t","e","d","_","d","e","a","l","_","i","d","_","9","9","9">>))
    ELSE create_deal_with_quote_try(
             deals_basic_api_create(w, o, project_type, clean_budget(budget)),
             o, contact_id)

\* datetime.now().strftime('%Y%m%d') on the day of the call.
date_str == <<"2","0","2","6","0","1","0","1">>
output_folder == <<"g","e","n","e","r","a","t","e","d","_","q","u","o","t","e","s">>
base_url == <<"h","t","t","p",":","/","/","l","o","c","a","l","h","o","s","t",":","8","0","0","0">>

replace_char(s, old, new) == [i \in 1..Len(s) |-> IF s[i] = old THEN new ELSE s[i]]

RECURSIVE basename(_)
basename(path) ==
    IF path = << >> \/ path[Len(path)] = "/" THEN << >>
    ELSE basename(SubSeq(path, 1, Len(path) - 1)) \o <<path[Len(path)]>>

\* The links drawn on the document: accept_link and reject_link.
quote_document(deal_id) ==
    [accept_link |-> base_url \o <<"/","q","u","o","t","e","/","a","c","c","e","p","t","?","d","e","a","l","_","i","d","=">> \o str(deal_id),
     reject_link |-> base_url \o <<"/","q","u","o","t","e","/","r","e","j","e","c","t","?","d","e","a","l","_","i","d","=">> \o str(deal_id)]

\* canvas.Canvas(filepath).save(): the file of that name is created or replaced.
write_file(w, filename, document) ==
    [w EXCEPT !.files = {f \in @ : f.name # filename}
                        \cup {[name |-> filename, document |-> document]}]

\* The tool's answer reaches the user: they hold the link given for the deal.
link_given(w, deal_id, pdf_link) ==
    [w EXCEPT !.links = Append(@, [deal_id |-> str(deal_id), link |-> pdf_link])]

\* QuoteGenerator.generate_pdf: the file is written and (filepath, filename)
\* returned, or writing it raises, as o.pdf says.
generate_pdf(w, o, user_name, project_type, estimated_cost, deal_id) ==
    LET filename == <<"Q","u","o","t","e","_">> \o replace_char(user_name, " ", "_") \o <<"_">> \o date_str
                    \o <<".","p","d","f">>
        filepath == output_folder \o <<"/">> \o filename
    IN  IF o.pdf = "ok"
        THEN Return(Logged(write_file(w, filename, quote_document(deal_id)),
                           "generate_pdf", str(deal_id), filename, TRUE),
                    [t |-> "tuple", s |-> filepath, name |-> filename])
        ELSE Raise(Logged(w, "generate_pdf", str(deal_id), <<"d","i","s","k"," ","f","u","l","l">>, FALSE),
                   [type |-> "Exception", status |-> 0, msg |-> <<"d","i","s","k"," ","f","u","l","l">>])

\* The deal check switched off: every value counts as a deal id.
deal_failed_never(deal_id) == FALSE

deal_failed(deal_id) == In(<<"E","r","r","o","r">>, str(deal_id))

\* The except clause answering with the exception text alone.
pdf_failure_result_generic(deal_id, e) == <<"E","r","r","o","r",":"," ">> \o e.msg

pdf_failure_result(deal_id, e) ==
    <<"D","e","a","l"," ","C","r","e","a","t","e","d"," ","(">> \o str(deal_id) \o <<")",","," ","b","u","t"," ","P","D","F"," ","g","e","n","e","r","a","t","i","o","n"," ","f","a","i","l","e","d",":"," ">> \o e.msg

\* The link is composed and the success text returned, or the except clause
\* answers, result being what generate_pdf did.
generate_quote_and_deal_return(deal_id, result) ==
    LET pdf_filename == IF result.value.t = "tuple" THEN result.value.name
                        ELSE basename(result.value.s)
        pdf_link == base_url \o <<"/","q","u","o","t","e","s","/">> \o pdf_filename
    IN  IF result.raised
        THEN Return(result.w, PyStr(pdf_failure_result(deal_id.value, result.exc)))
        ELSE Return(Logged(link_given(result.w, deal_id.value, pdf_link),
                           "pdf_link", pdf_filename, pdf_link, TRUE),
                    PyStr(<<"S","u","c","c","e","s","s","!"," ","D","e","a","l"," ">> \o str(deal_id.value)
                          \o <<" ","C","r","e","a","t","e","d","."," ","Q","u","o","t","e"," ","L","i","n","k",":"," ">> \o pdf_link))

\* "3. Generate PDF NOW (Using the Real Deal ID)", once deal_id was tested.
generate_quote_and_deal_step3(contact_id, deal_id, o, args) ==
    IF deal_id.raised THEN deal_id
    ELSE IF deal_failed(deal_id.value)
         THEN Return(Logged(deal_id.w, "create_deal_with_quote", str(contact_id.value),
                            str(deal_id.value), TRUE),
                     PyStr(<<"F","a","i","l","e","d"," ","t","o"," ","c","r","e","a","t","e"," ","d","e","a","l"," ","i","n"," ","H","u","b","S","p","o","t",":"," ">> \o str(deal_id.value)))
         ELSE generate_quote_and_deal_return(
                  deal_id,
                  generate_pdf(Logged(deal_id.w, "create_deal_with_quote",
                                      str(contact_id.value), str(deal_id.value), TRUE),
                               o, args.name, args.project_type, args.budget,
                               deal_id.value))

\* "2. Create Deal FIRST to get the ID"; the value of add_contact_to_wix is
\* not looked at.
generate_quote_and_deal_step2(contact_id, wix_success, o, args) ==
    IF wix_success.raised THEN wix_success
    ELSE generate_quote_and_deal_step3(
             contact_id,
             create_deal_with_quote(Logged(wix_success.w, "add_contact_to_wix", << >>,
                                           str(wix_success.value), TRUE),
                                    o, contact_id.value, args.project_type, args.budget,
                                    <<"G","e","n","e","r","a","t","i","n","g",".",".",".">>),
             o, args)

generate_quote_and_deal_wix(contact_id, o, args) ==
    IF contact_id.raised THEN contact_id
    ELSE generate_quote_and_deal_step2(
             contact_id,
             add_contact_to_wix(Logged(contact_id.w, "create_lead", args.email,
                                       str(contact_id.value), TRUE),
                                o, args.name, args.email, args.phone),
             o, args)

\* "1. Create Lead First"
generate_quote_and_deal(w, o, args) ==
    generate_quote_and_deal_wix(create_lead(w, o, args.name, args.email, args.phone),
                                o, args)

FinancingText ==
    <<"E","l","i","g","i","b","l","e"," ","f","o","r",":"," ","F","&","L"," ","E","x","c","l","u","s","i","v","e"," ","8","-","M","o","n","t","h","s"," ","S","a","m","e","-","A","s","-","C","a","s","h"," ","F","i","n","a","n","c","i","n","g"," ","P","r","o","g","r","a","m","."," ","(","A","p","p","r","o","v","a","l","s"," ","i","n"," ","m","i","n","u","t","e","s",")",".">>

check_financing_eligibility(w, o, args) == Return(w, PyStr(FinancingText))

get_secure_upload_link(w, o, args) == Return(w, PyStr(UploadLinkText))

\* ------------------------------------------------------------------------
\* The tools on their own: any configuration, any answers of the collaborators
\* ------------------------------------------------------------------------
LeadArgs ==
    {[name |-> <<"A","n","n"," ","L","e","e">>, email |-> <<"a","@","x",".","i","o">>, phone |-> <<"1","1","1">>,
      project_type |-> << >>, budget |-> << >>],
     [name |-> <<"A","n","n">>, email |-> <<"a","@","x",".","i","o">>, phone |-> <<"2","2","2">>,
      project_type |-> << >>, budget |-> << >>]}

QuoteBudgets == {<<"$","4","5","k">>, <<"$","1",",","5","0","0","k">>, <<"5","0",",","0","0","0">>}

QuoteArgs ==
    {[name |-> <<"A","n","n"," ","L","e","e">>, email |-> <<"a","@","x",".","i","o">>, phone |-> <<"1","1","1">>,
      project_type |-> <<"K","i","t","c","h","e","n">>, budget |-> b] : b \in QuoteBudgets}

NoArgs ==
    [name |-> << >>, email |-> << >>, phone |-> << >>, project_type |-> << >>,
     budget |-> << >>]

\* What the CRM may answer to create_lead's calls: it refuses a second contact
\* with a known email (409) and never reports a conflict for an unknown one.
LeadAnswers(w, email) ==
    IF ~w.client THEN {[create |-> "na", search |-> "na", update |-> "na"]}
    ELSE IF HasContact(w, email)
    THEN {[create |-> "conflict", search |-> "found", update |-> u] :
              u \in {"ok", "exception"}}
         \cup {[create |-> "conflict", search |-> s, update |-> "na"] :
                  s \in {"empty", "exception", "malformed"}}
         \cup {[create |-> c, search |-> "na", update |-> "na"] :
                  c \in {"api_error", "exception"}}
    ELSE {[create |-> c, search |-> "na", update |-> "na"] :
              c \in {"ok", "malformed", "api_error", "exception"}}

WixAnswers(w) == IF w.active THEN {"200", "201", "500", "exception"} ELSE {"na"}

DealAnswers(w) ==
    IF ~w.client THEN {[deal |-> "na", assoc |-> "na", pdf |-> p] : p \in {"ok", "raise"}}
    ELSE {[deal |-> "ok", assoc |-> a, pdf |-> p] :
              a \in {"ok", "exception"}, p \in {"ok", "raise"}}
         \cup {[deal |-> d, assoc |-> "na", pdf |-> "na"] : d \in {"exception", "malformed"}}

NoDealAnswer == [deal |-> "na", assoc |-> "na", pdf |-> "na"]

Answers(lead, post, deal) ==
    [create |-> lead.create, search |-> lead.search, update |-> lead.update,
     post |-> post, deal |-> deal.deal, assoc |-> deal.assoc, pdf |-> deal.pdf]

NoAnswers ==
    Answers([create |-> "na", search |-> "na", update |-> "na"], "na", NoDealAnswer)

\* create_lead's return value in the log of an invocation.
logged_contact_id(log) ==
    LET hits == {i \in 1..Len(log) : log[i].fn = "create_lead"}
    IN  IF hits = {} THEN << >> ELSE log[CHOOSE i \in hits : TRUE].out

ToolInit ==
    /\ GraphInit
    /\ \E client \in BOOLEAN, active \in BOOLEAN :
          call = [op     |-> "tools",
                  n      |-> 0,
                  w      |-> [client |-> client, active |-> active,
                              contacts |-> << >>, deals |-> << >>, log |-> << >>,
                              files |-> {}, links |-> << >>],
                  tool   |-> None,
                  args   |-> NoArgs,
                  raised |-> FALSE,
                  result |-> PyNone,
                  answers |-> NoAnswers,
                  before |-> [contacts |-> << >>, deals |-> << >>],
                  prev   |-> [tool |-> None, args |-> NoArgs, contact_id |-> << >>]]

\* One invocation of a tool through its boundary.
invoke(tool, args, o, r) ==
    /\ call.op = "tools"
    /\ call.n < MaxToolCalls
    /\ call' = [call EXCEPT
                  !.n      = @ + 1,
                  !.w      = r.w,
                  !.tool   = tool,
                  !.args   = args,
                  !.raised = r.raised,
                  !.result = r.value,
                  !.answers = o,
                  !.before = [contacts |-> call.w.contacts, deals |-> call.w.deals],
                  !.prev   = [tool |-> call.tool, args |-> call.args,
                              contact_id |-> logged_contact_id(call.w.log)]]
    /\ UNCHANGED <<persisted, writer, run>>

fresh_log(w) == [w EXCEPT !.log = << >>]

SaveLead(args, o) ==
    invoke("save_lead_to_hubspot", args, o, save_lead_to_hubspot(fresh_log(call.w), o, args))

GenerateQuote(args, o) ==
    invoke("generate_quote_and_deal", args, o,
           generate_quote_and_deal(fresh_log(call.w), o, args))

CheckFinancing ==
    invoke("check_financing_eligibility", NoArgs, NoAnswers,
           check_financing_eligibility(fresh_log(call.w), NoAnswers, NoArgs))

GetUploadLink ==
    invoke("get_secure_upload_link", NoArgs, NoAnswers,
           get_secure_upload_link(fresh_log(call.w), NoAnswers, NoArgs))

ToolNext ==
    \/ \E args \in LeadArgs :
       \E lead \in LeadAnswers(call.w, args.email), post \in WixAnswers(call.w) :
          SaveLead(args, Answers(lead, post, NoDealAnswer))
    \/ \E args \in QuoteArgs :
       \E lead \in LeadAnswers(call.w, args.email), post \in WixAnswers(call.w),
          deal \in DealAnswers(call.w) :
          GenerateQuote(args, Answers(lead, post, deal))
    \/ CheckFinancing
    \/ GetUploadLink

ToolSpec == ToolInit /\ [][ToolNext]_vars

\* ------------------------------------------------------------------------
\* The server: /chat, the Instagram background task and /twilio/sms driving
\* the compiled graph over one checkpoint store
\* ------------------------------------------------------------------------
DefaultReply ==
    <<"T","h","a","n","k"," ","y","o","u"," ","f","o","r"," ","c","o","n","n","e","c","t","i","n","g"," ","w","i","t","h"," ","F","&","L"," ","D","e","s","i","g","n"," ","B","u","i","l","d","e","r","s","."," ","W","e"," ","w","i","l","l"," ","b","e"," ","w","i","t","h"," ","y","o","u"," ","s","h","o","r","t","l","y",".">>

CheckingText == <<"C","h","e","c","k","i","n","g",".",".",".">>

ContextPrefixComment ==
    <<"[","C","O","N","T","E","X","T",":"," ","U","s","e","r"," ","c","o","m","m","e","n","t","e","d"," ","o","n"," ","a","n"," ","I","n","s","t","a","g","r","a","m"," ","P","o","s","t","."," ","K","e","e","p"," ","r","e","p","l","y"," ","p","u","b","l","i","c",","," ","s","h","o","r","t",","," ","e","n","g","a","g","i","n","g",","," ","a","n","d"," ","l","u","x","u","r","y"," ","t","o","n","e",".","]"," ">>

ContextPrefixDM ==
    <<"[","C","O","N","T","E","X","T",":"," ","U","s","e","r"," ","s","e","n","t"," ","a"," ","D","i","r","e","c","t"," ","M","e","s","s","a","g","e","."," ","B","e"," ","h","e","l","p","f","u","l",","," ","w","a","r","m",","," ","a","c","t"," ","a","s"," ","a"," ","c","o","n","c","i","e","r","g","e",".","]"," ">>

ServerTurns == 1..MaxServerTurns

InstagramTypes == {"dm", "comment"}

\* Who may write in: a channel with request.session_id (any text the caller
\* likes), the Instagram sender or comment id, or the SMS sender number.
Inbound ==
    {[channel |-> "chat", id |-> <<"A">>], [channel |-> "chat", id |-> <<"i","g","_","A">>],
     [channel |-> "dm", id |-> <<"A">>], [channel |-> "comment", id |-> <<"A">>],
     [channel |-> "sms", id |-> <<"A">>]}

\* config["configurable"]["thread_id"] of each handler.
thread_id(channel, id) ==
    CASE channel = "chat" -> id
      [] channel \in InstagramTypes -> <<"i","g","_">> \o id
      [] channel = "sms" -> <<"s","m","s","_">> \o id

Threads == {thread_id(i.channel, i.id) : i \in Inbound}

\* The content of the HumanMessage each handler gives to the graph.
inbound_message(channel, text) ==
    CASE channel = "comment" -> ContextPrefixComment \o text
      [] channel = "dm" -> ContextPrefixDM \o text
      [] OTHER -> text

\* final_response / response_text before the stream is read.
initial_response_text(channel) ==
    IF channel = "sms" THEN CheckingText ELSE << >>

IdleTurn ==
    [pc            |-> "idle",     \* handler position: node of the graph due next
     channel       |-> None,
     thread        |-> << >>,
     message       |-> << >>,      \* content of the HumanMessage of this turn
     st            |-> AgentState, \* channel values held by the graph run
     base          |-> AgentState, \* channel values loaded from the store
     step          |-> 0,
     response_text |-> << >>,
     last_response |-> << >>,      \* <<what model.invoke returned last>>
     tool_executed |-> FALSE,
     status        |-> 0,          \* HTTP status the caller of the handler got
     delivered     |-> << >>,      \* <<text handed to the user's channel>>
     actions       |-> << >>,
     error         |-> None,
     loaded_at     |-> 0,          \* process generation when the history was read
     ended_at      |-> 0]          \* process generation when the handler ended

ServerInit ==
    /\ GraphInit
    /\ \E loaded \in BOOLEAN :
          call = [op     |-> "server",
                  agent  |-> loaded,   \* app_state has "agent": get_app succeeded
                  store  |-> [th \in Threads |-> AgentState],
                  epoch  |-> 1,
                  turns  |-> [t \in ServerTurns |-> IdleTurn]]

\* The checkpointer keeping one slot for all threads.
store_put_single_slot(store, thread, state) ==
    [th \in DOMAIN store |-> state]

\* aput of the checkpointer: the thread's latest channel values.
store_put(store, thread, state) ==
    [store EXCEPT ![thread] = state]

\* The handler ends: what its caller got is settled.
ended(turn, epoch) == [turn EXCEPT !.pc = "done", !.ended_at = epoch]

\* app_state has no agent.
without_agent(turn) ==
    CASE turn.channel = "chat" ->
            [turn EXCEPT !.status = 500, !.error = "HTTPException"]
      [] turn.channel \in InstagramTypes ->
            [turn EXCEPT !.delivered = <<DefaultReply>>]
      [] turn.channel = "sms" ->
            [turn EXCEPT !.status = 200]

\* agent.astream raised e: chat_endpoint answers 500, process_instagram_event
\* logs and returns, handle_sms has no handler and the framework answers 500.
on_exception(turn, e) ==
    CASE turn.channel = "chat" -> [turn EXCEPT !.status = 500, !.error = e]
      [] turn.channel \in InstagramTypes -> [turn EXCEPT !.error = e]
      [] turn.channel = "sms" -> [turn EXCEPT !.status = 500, !.error = e]

\* The body handle_sms gives to twilio_manager.send_sms.
sms_reply(turn) == turn.response_text

\* The stream is exhausted.
on_stream_end(turn) ==
    CASE turn.channel = "chat" ->
            [turn EXCEPT !.status = 200,
                         !.delivered = <<IF turn.response_text = << >>
                                         THEN FallbackText
                                         ELSE turn.response_text>>,
                         !.actions = IF turn.tool_executed
                                     THEN <<"lead_captured">> ELSE << >>]
      [] turn.channel \in InstagramTypes ->
            [turn EXCEPT !.delivered = <<IF turn.response_text # << >>
                                         THEN turn.response_text
                                         ELSE DefaultReply>>]
      [] turn.channel = "sms" ->
            [turn EXCEPT !.status = 200, !.delivered = <<sms_reply(turn)>>]

ServerTurn(t) == call.turns[t]

InGraph(t) == ServerTurn(t).pc \in {"classify", "retrieve", "agent", "tools"}

turn_within_limit(t) == ServerTurn(t).step < recursion_limit

\* A super-step of turn t ended in `state`, with `turn` the handler's record.
super_step(t, turn, state) ==
    /\ call' = [call EXCEPT
                  !.turns[t] = [turn EXCEPT !.st = state, !.step = @ + 1],
                  !.store = store_put(@, turn.thread, state)]
    /\ UNCHANGED <<persisted, writer, run>>

\* An event reaches its handler. The webhook has answered 200 by the time the
\* Instagram background task runs.
ServerReceive(t, from, text) ==
    /\ call.turns[t].pc = "idle"
    /\ \A q \in ServerTurns : q < t => call.turns[q].pc # "idle"
    /\ LET turn == [IdleTurn EXCEPT
                       !.channel = from.channel,
                       !.thread = thread_id(from.channel, from.id),
                       !.message = inbound_message(from.channel, text),
                       !.response_text = initial_response_text(from.channel),
                       !.status = IF from.channel \in InstagramTypes THEN 200 ELSE 0]
       IN  call' = [call EXCEPT !.turns[t] =
                      IF call.agent THEN [turn EXCEPT !.pc = "START"]
                      ELSE ended(without_agent(turn), call.epoch)]
    /\ UNCHANGED <<persisted, writer, run>>

\* astream begins: the thread's checkpoint is read, the input is applied and
\* the input checkpoint is written.
ServerLoad(t) ==
    /\ call.turns[t].pc = "START"
    /\ LET base  == call.store[call.turns[t].thread]
           state == [base EXCEPT !.messages =
                        add_messages(@, <<HumanMessage(call.turns[t].message, t)>>)]
       IN  call' = [call EXCEPT
                      !.turns[t] = [@ EXCEPT !.pc = edge_START, !.base = base,
                                             !.st = state, !.loaded_at = call.epoch],
                      !.store = store_put(@, call.turns[t].thread, state)]
    /\ UNCHANGED <<persisted, writer, run>>

ServerClassify(t) ==
    /\ call.turns[t].pc = "classify"
    /\ turn_within_limit(t)
    /\ super_step(t, [call.turns[t] EXCEPT !.pc = edge_classify],
                  [call.turns[t].st EXCEPT
                      !.user_role = classify_user_node(call.turns[t].st).user_role])

ServerRetrieve(t, docs) ==
    /\ call.turns[t].pc = "retrieve"
    /\ turn_within_limit(t)
    /\ super_step(t, [call.turns[t] EXCEPT !.pc = edge_retrieve],
                  [call.turns[t].st EXCEPT
                      !.context = retrieve_node(call.turns[t].st, docs).context])

\* The agent node; each handler keeps the text of the latest "agent" event.
ServerAgent(t, response) ==
    /\ call.turns[t].pc = "agent"
    /\ turn_within_limit(t)
    /\ super_step(t, [call.turns[t] EXCEPT
                         !.pc = IF response.tool_calls # << >> THEN "tools" ELSE "__end__",
                         !.response_text = response.content,
                         !.last_response = <<response>>],
                  generate_node(call.turns[t].st, response, t))

ServerTools(t) ==
    /\ call.turns[t].pc = "tools"
    /\ turn_within_limit(t)
    /\ super_step(t, [call.turns[t] EXCEPT !.pc = edge_tools, !.tool_executed = TRUE],
                  tool_node(call.turns[t].st, t))

\* astream raises: the checkpointer's connection fails while the checkpoint is
\* read or written, or the run is out of super-steps.
StreamRaises(t, e) ==
    /\ \/ e = "OperationalError" /\ (call.turns[t].pc = "START" \/ InGraph(t))
       \/ e = "GraphRecursionError" /\ InGraph(t) /\ ~turn_within_limit(t)
    /\ call' = [call EXCEPT !.turns[t] = ended(on_exception(@, e), call.epoch)]
    /\ UNCHANGED <<persisted, writer, run>>

ServerFinish(t) ==
    /\ call.turns[t].pc = "__end__"
    /\ call' = [call EXCEPT !.turns[t] = ended(on_stream_end(@), call.epoch)]
    /\ UNCHANGED <<persisted, writer, run>>

\* The process restarting with an in-memory checkpointer.
ServerRestart_memory_saver(loaded) ==
    /\ call.epoch <= MaxRestarts
    /\ call' = [call EXCEPT
                  !.agent = loaded,
                  !.epoch = @ + 1,
                  !.store = [th \in Threads |-> AgentState],
                  !.turns = [t \in ServerTurns |->
                                IF call.turns[t].pc \in {"idle", "done"}
                                THEN call.turns[t]
                                ELSE [call.turns[t] EXCEPT !.pc = "done",
                                                           !.error = "killed",
                                                           !.ended_at = call.epoch]]]
    /\ UNCHANGED <<persisted, writer, run>>

\* The process restarts: handlers in flight die with it, lifespan loads the
\* agent again (or fails to), and the checkpoints stay in the database.
ServerRestart(loaded) ==
    /\ call.epoch <= MaxRestarts
    /\ call' = [call EXCEPT
                  !.agent = loaded,
                  !.epoch = @ + 1,
                  !.turns = [t \in ServerTurns |->
                                IF call.turns[t].pc \in {"idle", "done"}
                                THEN call.turns[t]
                                ELSE [call.turns[t] EXCEPT !.pc = "done",
                                                           !.error = "killed",
                                                           !.ended_at = call.epoch]]]
    /\ UNCHANGED <<persisted, writer, run>>

ServerTexts == {TxtKitchen}
ServerContexts == {"docsA"}
StreamErrors == {"OperationalError", "GraphRecursionError"}

ServerNext ==
    \/ \E t \in ServerTurns, from \in Inbound, text \in ServerTexts :
          ServerReceive(t, from, text)
    \/ \E t \in ServerTurns : ServerLoad(t)
    \/ \E t \in ServerTurns : ServerClassify(t)
    \/ \E t \in ServerTurns, docs \in ServerContexts : ServerRetrieve(t, docs)
    \/ \E t \in ServerTurns, response \in LLMResponses : ServerAgent(t, response)
    \/ \E t \in ServerTurns : ServerTools(t)
    \/ \E t \in ServerTurns, e \in StreamErrors : StreamRaises(t, e)
    \/ \E t \in ServerTurns : ServerFinish(t)
    \/ \E loaded \in BOOLEAN : ServerRestart(loaded)

ServerSpec == ServerInit /\ [][ServerNext]_vars

\* ------------------------------------------------------------------------
\* generate_node on user texts put together from pieces of the two markers
\* ------------------------------------------------------------------------
TextPieces == {<<"F","L","_","A","D","M","I","N","_">>, <<"A","C","C","E","S","S">>, <<"S","E","C","R","E","T","_">>, <<"K","E","Y","_","7","8","6">>, <<" ","l","e","a","d","s">>}

AdminInit ==
    /\ GraphInit
    /\ call = [op |-> "admin_text", text |-> << >>, pieces |-> 0,
               final_input |-> << >>]

\* The user types on.
AdminAppend(piece) ==
    /\ call.final_input = << >>
    /\ call.pieces < MaxPieces
    /\ call' = [call EXCEPT !.text = @ \o piece, !.pieces = @ + 1]
    /\ UNCHANGED <<persisted, writer, run>>

\* The text is sent as the first message of a session: the agent node builds
\* final_input from it.
AdminGenerate(docs) ==
    /\ call.final_input = << >>
    /\ call.pieces > 0
    /\ call' = [call EXCEPT !.final_input =
                  <<final_input(before_generate(AgentState, call.text, docs, 1))>>]
    /\ UNCHANGED <<persisted, writer, run>>

AdminNext ==
    \/ \E piece \in TextPieces : AdminAppend(piece)
    \/ \E docs \in Contexts : AdminGenerate(docs)

AdminSpec == AdminInit /\ [][AdminNext]_vars

\* ------------------------------------------------------------------------
\* handle_webhook: POST /webhook from Meta
\* ------------------------------------------------------------------------
\* The Instagram id of the business account, and of a follower.
OwnId == <<"1","7","8","9">>
FollowerId == <<"4","2">>
\* The id Meta gives to a comment; here it tells the author.
CommentId(from) == <<"c","_">> \o from
\* A key that is missing (get returns None): falsy, as the empty text is.
Absent == << >>

\* An event of entry["messaging"] or entry["standby"]: the sender id and the
\* message text, where present, and message.is_echo.
MessageEvents ==
    {[sender |-> s, text |-> x, is_echo |-> e] :
        s \in {Absent, FollowerId}, x \in {Absent, TxtKitchen}, e \in BOOLEAN}

\* A change of entry["changes"].
ChangeEvents ==
    {[field |-> f, id |-> CommentId(u), from |-> u, text |-> x] :
        f \in {"comments", "mentions"}, u \in {FollowerId, OwnId},
        x \in {Absent, TxtKitchen}}

\* An entry has a key when its list holds an event.
EmptyEntry == [messaging |-> << >>, standby |-> << >>, changes |-> << >>]

Task(target_id, user_text, type) ==
    [target_id |-> target_id, user_text |-> user_text, type |-> type]

\* "A. Handle PRIMARY DMs": the loop over entry["messaging"].
RECURSIVE messaging_tasks(_)
messaging_tasks(events) ==
    IF events = << >> THEN << >>
    ELSE (IF Head(events).is_echo THEN << >>
          ELSE IF Head(events).text # Absent /\ Head(events).sender # Absent
               THEN <<Task(Head(events).sender, Head(events).text, "dm")>>
               ELSE << >>)
         \o messaging_tasks(Tail(events))

\* "B. Handle STANDBY DMs"
RECURSIVE standby_tasks(_)
standby_tasks(events) ==
    IF events = << >> THEN << >>
    ELSE (IF /\ Head(events).text # Absent /\ Head(events).sender # Absent
             /\ ~Head(events).is_echo
          THEN <<Task(Head(events).sender, Head(events).text, "dm")>>
          ELSE << >>)
         \o standby_tasks(Tail(events))

\* "C. Handle COMMENTS"
RECURSIVE changes_tasks(_, _)
changes_tasks(changes, ig_user_id) ==
    IF changes = << >> THEN << >>
    ELSE (IF Head(changes).field # "comments" THEN << >>
          ELSE IF Head(changes).from = ig_user_id THEN << >>
          ELSE IF Head(changes).text # Absent
               THEN <<Task(Head(changes).id, Head(changes).text, "comment")>>
               ELSE << >>)
         \o changes_tasks(Tail(changes), ig_user_id)

\* The if / elif / elif on the keys of one entry.
entry_tasks(entry, ig_user_id) ==
    IF entry.messaging # << >> THEN messaging_tasks(entry.messaging)
    ELSE IF entry.standby # << >> THEN standby_tasks(entry.standby)
    ELSE IF entry.changes # << >> THEN changes_tasks(entry.changes, ig_user_id)
    ELSE << >>

\* background_tasks after the loop over payload["entry"].
RECURSIVE handle_webhook(_, _)
handle_webhook(entries, ig_user_id) ==
    IF entries = << >> THEN << >>
    ELSE entry_tasks(Head(entries), ig_user_id)
         \o handle_webhook(Tail(entries), ig_user_id)

events_in(entry) == Len(entry.messaging) + Len(entry.standby) + Len(entry.changes)

RECURSIVE events_of(_)
events_of(entries) ==
    IF entries = << >> THEN 0
    ELSE events_in(Head(entries)) + events_of(Tail(entries))

\* INSTAGRAM_BUSINESS_ID is set to the account's id, or not set.
WebhookInit ==
    /\ GraphInit
    /\ \E ig_user_id \in {OwnId, Absent} :
          call = [op |-> "webhook", IG_USER_ID |-> ig_user_id,
                  entry |-> <<EmptyEntry>>, posted |-> FALSE,
                  background_tasks |-> << >>]

\* Meta puts one more event into the last entry of the payload it will send.
WebhookEvent(key, event) ==
    /\ ~call.posted
    /\ events_of(call.entry) < MaxEvents
    /\ call' = [call EXCEPT !.entry[Len(call.entry)][key] = Append(@, event)]
    /\ UNCHANGED <<persisted, writer, run>>

WebhookEntry ==
    /\ ~call.posted
    /\ Len(call.entry) < MaxEntries
    /\ events_in(Last(call.entry)) > 0
    /\ call' = [call EXCEPT !.entry = Append(@, EmptyEntry)]
    /\ UNCHANGED <<persisted, writer, run>>

\* The payload arrives: the handler goes through it and answers.
WebhookPost ==
    /\ ~call.posted
    /\ call' = [call EXCEPT
                  !.posted = TRUE,
                  !.background_tasks = handle_webhook(call.entry, call.IG_USER_ID)]
    /\ UNCHANGED <<persisted, writer, run>>

WebhookNext ==
    \/ \E key \in {"messaging", "standby"}, event \in MessageEvents :
          WebhookEvent(key, event)
    \/ \E event \in ChangeEvents : WebhookEvent("changes", event)
    \/ WebhookEntry
    \/ WebhookPost

WebhookSpec == WebhookInit /\ [][WebhookNext]_vars

\* ------------------------------------------------------------------------
\* content_scheduler: the Trello queue published to Instagram
\* ------------------------------------------------------------------------
LIST_READY == <<"R","e","a","d","y"," ","t","o"," ","P","o","s","t">>
LIST_DONE == <<"P","o","s","t","e","d">>

ImageUrl == <<"h","t","t","p","s",":","/","/","x",".","i","o","/","a",".","p","n","g">>

\* The cards on the board: two with an image link, one with no description.
TrelloCards ==
    <<[id |-> "card1", name |-> <<"K","i","t","c","h","e","n"," ","r","e","v","e","a","l">>, desc |-> ImageUrl],
      [id |-> "card2", name |-> <<"B","a","t","h"," ","r","e","v","e","a","l">>, desc |-> <<" ">> \o ImageUrl],
      [id |-> "card3", name |-> <<"D","r","a","f","t">>, desc |-> <<" ">>]>>

CardIds == {TrelloCards[i].id : i \in 1..Len(TrelloCards)}

\* What Meta and Trello answer for a card during one run.
PostAnswers == {"published", "refused"}
MoveAnswers == {"moved", "no_list", "raises"}
QueueAnswers == [CardIds -> [post : PostAnswers, move : MoveAnswers]]

\* re.search(r'(https?://[^\s\[\]()]+)', image_url) finds a link.
url_match(image_url) == In(<<"h","t","t","p",":","/","/">>, image_url) \/ In(<<"h","t","t","p","s",":","/","/">>, image_url)

\* post_to_instagram_api: True when media_publish answered with an id.
post_to_instagram_api(board, card, o) ==
    IF url_match(card.desc) /\ o[card.id].post = "published"
    THEN [board |-> [board EXCEPT !.published[card.id] = @ + 1], success |-> TRUE]
    ELSE [board |-> board, success |-> FALSE]

\* move_card_to_list: the PUT is sent when the list is found; a failure is
\* swallowed by the bare except.
move_card_to_list(board, card_id, target_list_name, o) ==
    IF o[card_id].move = "moved"
    THEN [board EXCEPT !.lists[card_id] = target_list_name]
    ELSE board

\* One pass of the loop body of process_trello_queue.
process_card(board, card, o) ==
    IF strip(card.desc) = << >> THEN board
    ELSE IF post_to_instagram_api(board, card, o).success
         THEN move_card_to_list(post_to_instagram_api(board, card, o).board,
                                card.id, LIST_DONE, o)
         ELSE board

\* get_trello_cards(LIST_READY) at the start of the run.
get_trello_cards(board, list_name) ==
    SelectSeq(TrelloCards, LAMBDA card : board.lists[card.id] = list_name)

RECURSIVE process_cards(_, _, _)
process_cards(board, cards, o) ==
    IF cards = << >> THEN board
    ELSE process_cards(process_card(board, Head(cards), o), Tail(cards), o)

process_trello_queue(board, o) ==
    process_cards(board, get_trello_cards(board, LIST_READY), o)

SchedulerInit ==
    /\ GraphInit
    /\ call = [op    |-> "scheduler",
               runs  |-> 0,
               board |-> [lists     |-> [c \in CardIds |-> LIST_READY],
                          published |-> [c \in CardIds |-> 0]],
               before |-> [c \in CardIds |-> LIST_READY],
               answers |-> [c \in CardIds |-> [post |-> "refused", move |-> "moved"]]]

\* schedule.every(1).hours: one run of the queue.
SchedulerRun(o) ==
    /\ call.op = "scheduler"
    /\ call.runs < MaxRuns
    /\ call' = [call EXCEPT !.runs = @ + 1,
                            !.before = call.board.lists,
                            !.answers = o,
                            !.board = process_trello_queue(call.board, o)]
    /\ UNCHANGED <<persisted, writer, run>>

SchedulerNext == \E o \in QueueAnswers : SchedulerRun(o)

SchedulerSpec == SchedulerInit /\ [][SchedulerNext]_vars

\* ------------------------------------------------------------------------
\* TwilioManager
\* ------------------------------------------------------------------------
\* os.getenv of a variable: not set, set to the empty text, or set.
EnvValues(texts) == {PyNone, PyStr(<< >>)} \cup {PyStr(x) : x \in texts}

TwilioEnvs ==
    [TWILIO_ACCOUNT_SID  : EnvValues({<<"A","C","1","2","3","4","5","6">>}),
     TWILIO_AUTH_TOKEN   : EnvValues({<<"t","o","k">>}),
     TWILIO_PHONE_NUMBER : EnvValues({<<" ","+","1","5","5","5"," ">>})]

NoManager ==
    [account_sid |-> PyNone, auth_token |-> PyNone, phone_number |-> PyNone,
     client |-> FALSE]

\* The debug print of __init__: self.account_sid[:5] of a value that is None
\* raises TypeError.
config_print_raises(account_sid) == account_sid.t = "NoneType"

\* TwilioManager.__init__
TwilioManager(env) ==
    LET phone == env.TWILIO_PHONE_NUMBER
        self  == [account_sid  |-> env.TWILIO_ACCOUNT_SID,
                  auth_token   |-> env.TWILIO_AUTH_TOKEN,
                  phone_number |-> IF truthy(phone) THEN PyStr(strip(phone.s))
                                   ELSE PyNone,
                  client       |-> truthy(env.TWILIO_ACCOUNT_SID)
                                   /\ truthy(env.TWILIO_AUTH_TOKEN)]
    IN  IF config_print_raises(env.TWILIO_ACCOUNT_SID)
        THEN [raised |-> "TypeError", manager |-> NoManager]
        ELSE [raised |-> None, manager |-> self]

\* send_sms: what it returns and the messages Twilio has accepted after it.
send_sms(self, sent, to_number, body, answer) ==
    IF ~self.client THEN [value |-> PyFalse, sent |-> sent]
    ELSE IF ~truthy(self.phone_number) THEN [value |-> PyFalse, sent |-> sent]
    ELSE IF answer = "sid"
         THEN [value |-> PyStr(<<"S","M","1">>),
               sent  |-> Append(sent, [body |-> body, from_ |-> self.phone_number.s,
                                       to |-> to_number])]
         ELSE [value |-> PyNone, sent |-> sent]

TwilioInit ==
    /\ GraphInit
    /\ \E env \in TwilioEnvs :
          call = [op |-> "twilio", env |-> env, constructed |-> FALSE,
                  raised |-> None, manager |-> NoManager,
                  n |-> 0, value |-> PyNone, sent |-> << >>]

\* twilio_manager = TwilioManager() when api.py is imported.
TwilioConstruct ==
    /\ ~call.constructed
    /\ call' = [call EXCEPT !.constructed = TRUE,
                            !.raised = TwilioManager(call.env).raised,
                            !.manager = TwilioManager(call.env).manager]
    /\ UNCHANGED <<persisted, writer, run>>

TwilioSend(to_number, body, answer) ==
    /\ call.constructed /\ call.raised = None
    /\ call.n < MaxSms
    /\ call' = [call EXCEPT
                  !.n = @ + 1,
                  !.value = send_sms(call.manager, call.sent, to_number, body, answer).value,
                  !.sent = send_sms(call.manager, call.sent, to_number, body, answer).sent]
    /\ UNCHANGED <<persisted, writer, run>>

SmsBodies == {CheckingText, LLMText, << >>}

TwilioNext ==
    \/ TwilioConstruct
    \/ \E body \in SmsBodies, answer \in {"sid", "raises"} :
       \E to_number \in {<<"+","1","7","7","7">>, <<"+","1","8","8","8">>} :
             TwilioSend(to_number, body, answer)

TwilioSpec == TwilioInit /\ [][TwilioNext]_vars

\* ------------------------------------------------------------------------
\* clean_budget on budget texts put together from pieces
\* ------------------------------------------------------------------------
BudgetPieces ==
    {<<"$">>, <<"5">>, <<"0">>, <<",">>, <<"k">>, <<"m">>, <<" ","m","a","x">>, <<" ","c","a","s","h">>}

BudgetInit ==
    /\ GraphInit
    /\ call = [op |-> "clean_budget", amount_str |-> << >>, pieces |-> 0,
               cleaned |-> FALSE, amount |-> << >>]

\* The model writes on at the budget argument.
BudgetAppend(piece) ==
    /\ ~call.cleaned
    /\ call.pieces < MaxBudgetPieces
    /\ call' = [call EXCEPT !.amount_str = @ \o piece, !.pieces = @ + 1]
    /\ UNCHANGED <<persisted, writer, run>>

\* create_deal_with_quote: final_amount = self.clean_budget(budget)
BudgetClean ==
    /\ ~call.cleaned
    /\ call' = [call EXCEPT !.cleaned = TRUE, !.amount = clean_budget(call.amount_str)]
    /\ UNCHANGED <<persisted, writer, run>>

BudgetNext ==
    \/ \E piece \in BudgetPieces : BudgetAppend(piece)
    \/ BudgetClean

BudgetSpec == BudgetInit /\ [][BudgetNext]_vars

\* ------------------------------------------------------------------------
\* Properties
\* ------------------------------------------------------------------------
HasToken(text) == In(FL_ADMIN_ACCESS, text) \/ In(SECRET_KEY_786, text)

Started(r) == run[r].pc # "idle"

Ended(r) == run[r].pc \in {"returned", "raised"}

IsSegment(role) == role \in {"homeowner", "realtor"}

\* C1: once the session's user_role is homeowner or realtor, every later run of
\* classify_user_node in that session returns that same value.
C1_StickySegment ==
    [][\A r \in Requests :
         (/\ run[r].pc = "classify"
          /\ run'[r].pc # "classify"
          /\ IsSegment(persisted[run[r].sid].user_role))
         => run'[r].classified = persisted[run[r].sid].user_role]_vars

\* Routing of the generate/tools loop, shared by the two statements of C2: the
\* tools step is due exactly after a response with tool calls, the agent step is
\* due after the user message or after tool results, and the run is over exactly
\* after a response without tool calls.
LoopRouting(r) ==
    LET last == Last(run[r].st.messages)
    IN  /\ run[r].pc = "tools" => (last.type = "ai" /\ last.tool_calls # << >>)
        /\ run[r].pc = "agent" => last.type \in {"human", "tool"}
        /\ (last.type = "tool" /\ ~Ended(r)) => run[r].pc = "agent"
        /\ run[r].pc \in {"__end__", "returned"}
             <=> (last.type = "ai" /\ last.tool_calls = << >>)

\* C2 (as stated): a turn ends exactly when a generate step returns a response
\* without tool calls, and the text returned to the caller is the text of that
\* response.
C2_ReturnsLastText ==
    \A r \in Requests : Started(r) =>
        /\ LoopRouting(r)
        /\ run[r].pc = "returned"
             => run[r].response = Last(run[r].st.messages).content

\* C2 (amended): as above, but the text returned is the text of that response
\* when it is not empty and the fixed fallback text when it is empty.
C2_ReturnsLastTextOrFallback ==
    \A r \in Requests : Started(r) =>
        /\ LoopRouting(r)
        /\ run[r].pc = "returned"
             => run[r].response =
                    IF Last(run[r].st.messages).content = << >>
                    THEN FallbackText
                    ELSE Last(run[r].st.messages).content

\* A turn went through the tools step and ended on an empty response.
C2_Witness ==
    \E r \in Requests :
        /\ run[r].pc = "returned"
        /\ run[r].tool_executed
        /\ Last(run[r].st.messages).content = << >>
        /\ run[r].response = FallbackText

\* C3: a turn that exhausts the iteration cap answers the caller with the generic
\* fallback text, not with an exception or an error status.
C3_CapYieldsFallback ==
    \A r \in Requests :
        (Ended(r) /\ run[r].error = "GraphRecursionError")
        => (run[r].status = 200 /\ run[r].response = FallbackText)

\* C4: in a turn, classify and retrieve run once each, in that order and before
\* the first generate step; every generate step, also one that follows a tools
\* step, uses the segment and the context this turn's classify and retrieve
\* steps returned.
C4_StepOrder ==
    \A r \in Requests :
        /\ run[r].pc = "classify"
             => (run[r].nClassify = 0 /\ run[r].nRetrieve = 0 /\ run[r].nGenerate = 0)
        /\ run[r].pc = "retrieve"
             => (run[r].nClassify = 1 /\ run[r].nRetrieve = 0 /\ run[r].nGenerate = 0)
        /\ run[r].pc \in {"agent", "tools", "__end__", "returned"}
             => (run[r].nClassify = 1 /\ run[r].nRetrieve = 1)
        /\ run[r].nGenerate > 0 => (run[r].nClassify = 1 /\ run[r].nRetrieve = 1)
        /\ \A i \in 1..Len(run[r].final_input) :
             LET system == run[r].final_input[i].system
             IN  /\ system.context = run[r].retrieved
                 /\ system.persona # "admin"
                      => system.persona =
                            IF run[r].classified = "realtor"
                            THEN "realtor" ELSE "homeowner"

\* A turn ran a second generate step after a tools step.
C4_Witness ==
    \E r \in Requests :
        /\ run[r].nGenerate = 2
        /\ run[r].tool_executed
        /\ run[r].pc = "returned"

\* C5: no message of any history given to the model contains the secret token.
C5_NoTokenSubmitted ==
    \A r \in Requests :
        \A i \in 1..Len(run[r].final_input) :
            \A k \in 1..Len(run[r].final_input[i].messages) :
                ~HasToken(run[r].final_input[i].messages[k].content)

\* C6: after a turn whose user message contained the secret token, no message of
\* the persisted history of the session contains it.
C6_NoTokenPersisted ==
    \A r \in Requests :
        (run[r].pc = "returned" /\ HasToken(run[r].text))
        => \A k \in 1..Len(persisted[run[r].sid].messages) :
              ~HasToken(persisted[run[r].sid].messages[k].content)

\* C7: every assistant message of every history given to the model has
\* non-empty text.
C7_NoEmptyAssistant ==
    \A r \in Requests :
        \A i \in 1..Len(run[r].final_input) :
            \A k \in 1..Len(run[r].final_input[i].messages) :
                run[r].final_input[i].messages[k].type = "ai"
                => run[r].final_input[i].messages[k].content # << >>

HasMessage(messages, type, turn) ==
    \E k \in 1..Len(messages) : messages[k].type = type /\ messages[k].turn = turn

\* C8: when two turns of one session have both been answered, the persisted
\* history holds the user message and the assistant reply of each.
C8_BothTurnsKept ==
    \A r1, r2 \in Requests :
        (/\ r1 # r2
         /\ run[r1].pc = "returned" /\ run[r2].pc = "returned"
         /\ run[r1].sid = run[r2].sid)
        => \A r \in {r1, r2} :
              /\ HasMessage(persisted[run[r].sid].messages, "human", r)
              /\ HasMessage(persisted[run[r].sid].messages, "ai", r)

SameUpTo(before, after, same(_, _)) ==
    /\ Len(before) <= Len(after)
    /\ \A k \in 1..Len(before) : same(before[k], after[k])

Identical(m, n) == m = n

IdenticalOrPlaceholder(m, n) ==
    \/ m = n
    \/ /\ m.type = "ai" /\ m.content = << >> /\ m.tool_calls # << >>
       /\ n = [m EXCEPT !.content = SanitizerPlaceholder]

\* C9 (as stated): the history a turn started from is a prefix of every history
\* the turn persists, each earlier message with its role and content unchanged.
C9_AppendOnly ==
    \A s \in Sessions :
        writer[s] # 0 => SameUpTo(run[writer[s]].base, persisted[s].messages, Identical)

\* C9 (amended): the history a turn started from is a prefix of every history the
\* turn persists, each earlier message unchanged except that an assistant message
\* with empty text and tool calls may have got the placeholder text.
C9_AppendOnlyUpToPlaceholder ==
    \A s \in Sessions :
        writer[s] # 0
        => SameUpTo(run[writer[s]].base, persisted[s].messages, IdenticalOrPlaceholder)

\* A turn persisted a history in which an earlier empty assistant message now
\* carries the placeholder text.
C9_Witness ==
    \E s \in Sessions :
        /\ writer[s] # 0
        /\ \E k \in 1..Len(run[writer[s]].base) :
              /\ run[writer[s]].base[k].content = << >>
              /\ persisted[s].messages[k].content = SanitizerPlaceholder

\* keyword occurs in text at some position, letters compared without case
OccursFolded(keyword, text) ==
    \E i \in 0..(Len(text) - Len(keyword)) :
        \A j \in 1..Len(keyword) : LowerChar(text[i + j]) = keyword[j]

RealtorKeywordSet == {realtor_keywords[i] : i \in 1..Len(realtor_keywords)}

\* C10: on a state whose segment is unset, classification returns realtor exactly
\* when the lower-cased latest user text contains a keyword of the set, and
\* homeowner otherwise, whatever the earlier messages are.
C10_KeywordMembership ==
    (call.op = "classify_user_node" /\ call.done /\ ~IsSegment(call.role_in))
    => call.state.user_role =
          IF \E k \in RealtorKeywordSet :
                OccursFolded(k, Last(call.state.messages).content)
          THEN "realtor" ELSE "homeowner"

\* An unset state was classified realtor on an upper-case keyword although an
\* earlier message held none.
C10_Witness ==
    /\ call.op = "classify_user_node" /\ call.done /\ call.role_in = None
    /\ Len(call.state.messages) = 2
    /\ call.state.messages[1].content = TxtKitchen
    /\ call.state.messages[2].content = TxtROI
    /\ call.state.user_role = "realtor"

C20_SearchFaultContinues ==
    \A r \in Requests :
        run[r].error = "similarity_search" =>
            /\ run[r].status # 500
            /\ run[r].pc # "raised"
            /\ run[r].st.context = ""

\* ------------------------------------------------------------------------
\* C11  Whenever the number of human messages has reached the conversion
\* threshold, the directive of that generate step ends with the scheduling
\* call-to-action, whichever instruction is otherwise active (either customer
\* persona or the admin instruction).
C11_CallToActionAtEnd ==
    (call.op = "generate_node" /\ call.done
        /\ human_msg_count(call.state_in.messages) >= 3)
    => Last(call.sections) = "conversion_instruction"

\* ------------------------------------------------------------------------
\* C13  When the last assistant message is the style question the next
\* directive is the timeline question, and when it is the timeline question
\* the next directive is the booking-link message, whatever the user replied.
LastAssistantText(messages) ==
    LET ai == {i \in 1..Len(messages) : messages[i].type = "ai"}
    IN  IF ai = {} THEN << >>
        ELSE messages[CHOOSE i \in ai : \A j \in ai : j <= i].content

C13_ScriptedFlow ==
    (call.op = "generate_node" /\ call.done) =>
        /\ LastAssistantText(call.state_in.messages) = TxtStyleQuestion
              => call.sections = <<"timeline_question">>
        /\ LastAssistantText(call.state_in.messages) = TxtTimelineQuestion
              => call.sections = <<"booking_link">>

\* ------------------------------------------------------------------------
\* Properties of the tools
\* ------------------------------------------------------------------------
Invoked(tool) == call.op = "tools" /\ call.n > 0 /\ call.tool = tool
LogHas(fn, ok) == \E i \in 1..Len(call.w.log) : call.w.log[i].fn = fn /\ call.w.log[i].ok = ok
LogCount(fn) == Cardinality({i \in 1..Len(call.w.log) : call.w.log[i].fn = fn})
LogPositions(fn) == {i \in 1..Len(call.w.log) : call.w.log[i].fn = fn}
ContactsOf(contacts, email) == {i \in 1..Len(contacts) : contacts[i].email = email}

\* C14  Every invocation of the four tools returns a string and raises nothing
\* past the tool boundary, whatever the collaborators do (success, error
\* status, exception, malformed return).
C14_ToolsNeverRaise ==
    (call.op = "tools" /\ call.n > 0) => (~call.raised /\ call.result.t = "str")

\* A lookup that raised inside the duplicate handling, and the tool still
\* returned.
C14_Witness ==
    /\ Invoked("save_lead_to_hubspot")
    /\ LogHas("contacts.search", FALSE)
    /\ ~call.raised

\* ------------------------------------------------------------------------
\* C15  Two save_lead calls in a row with the same email: there is never a
\* second CRM contact, the contact carries the second call's name and phone,
\* and the second call returns the contact id the first call returned.
SecondSaveSameEmail ==
    /\ Invoked("save_lead_to_hubspot")
    /\ call.prev.tool = "save_lead_to_hubspot"
    /\ call.prev.args.email = call.args.email

SecondSaveConverged ==
    LET mine == ContactsOf(call.w.contacts, call.args.email)
    IN  /\ Cardinality(mine) = 1
        /\ Len(call.w.contacts) = Len(call.before.contacts)
        /\ \A i \in mine : /\ call.w.contacts[i].name = call.args.name
                           /\ call.w.contacts[i].phone = call.args.phone
                           /\ call.w.contacts[i].id = logged_contact_id(call.w.log)
        /\ logged_contact_id(call.w.log) = call.prev.contact_id

FirstSaveMadeContact ==
    \E i \in ContactsOf(call.before.contacts, call.args.email) :
        call.before.contacts[i].id = call.prev.contact_id

RenderRaisedAfterDeal ==
    /\ Invoked("generate_quote_and_deal")
    /\ call.answers.deal = "ok"
    /\ call.answers.pdf = "raise"

C16_RenderFailureKeepsDeal ==
    RenderRaisedAfterDeal =>
        LET deal_id == DealIds[Len(call.before.deals) + 1]
        IN  /\ ~call.raised
            /\ In(deal_id, str(call.result))
            /\ In(<<"P","D","F"," ","g","e","n","e","r","a","t","i","o","n"," ","f","a","i","l","e","d">>, str(call.result))
            /\ Len(call.w.deals) = Len(call.before.deals) + 1
            /\ call.w.deals[Len(call.w.deals)].id = deal_id
            /\ LogCount("deals.create") = 1
            /\ LogCount("generate_pdf") = 1

C16_Witness ==
    /\ RenderRaisedAfterDeal
    /\ LogHas("generate_pdf", FALSE)
    /\ Len(call.w.deals) > 0

\* ------------------------------------------------------------------------
\* C17  generate_quote_and_deal works in the order contact, deal, document,
\* link; the document is rendered only after the deal call returned a deal id
\* and with that id; when deal creation fails no document is rendered and the
\* result is a failure string without a quote link.
C17_QuoteStepOrder ==
    Invoked("generate_quote_and_deal") =>
        /\ \A c \in LogPositions("create_lead"), d \in LogPositions("create_deal_with_quote") :
              c < d
        /\ \A p \in LogPositions("generate_pdf") :
              \E d \in LogPositions("create_deal_with_quote") :
                  /\ d < p
                  /\ call.w.log[p].arg = call.w.log[d].out
                  /\ call.answers.deal \in {"ok", "na"}
                  /\ call.w.client =>
                        call.w.log[p].arg = DealIds[Len(call.before.deals) + 1]
        /\ \A l \in LogPositions("pdf_link") :
              \E p \in LogPositions("generate_pdf") : p < l /\ call.w.log[p].ok
        /\ In(<<"Q","u","o","t","e"," ","L","i","n","k">>, str(call.result)) => LogCount("pdf_link") = 1
        /\ call.answers.deal \in {"exception", "malformed"} =>
              /\ LogCount("generate_pdf") = 0
              /\ LogCount("pdf_link") = 0
              /\ In(<<"F","a","i","l","e","d"," ","t","o"," ","c","r","e","a","t","e"," ","d","e","a","l">>, str(call.result))
              /\ ~In(<<"Q","u","o","t","e"," ","L","i","n","k">>, str(call.result))
              /\ ~In(<<"/","q","u","o","t","e","s","/">>, str(call.result))

\* A quote whose document was rendered with the id of the deal just created.
C17_Witness ==
    /\ Invoked("generate_quote_and_deal")
    /\ call.answers.deal = "ok"
    /\ LogCount("pdf_link") = 1
    /\ In(<<"Q","u","o","t","e"," ","L","i","n","k">>, str(call.result))
    /\ In(DealIds[Len(call.before.deals) + 1], str(call.result))

\* ------------------------------------------------------------------------
\* C18  The save_lead result reports a HubSpot ID only when the CRM contact
\* was created or updated by the call, and reports the CRM step as failed
\* whenever the CRM contact call failed.
ContactWritten ==
    call.w.contacts # call.before.contacts \/ LogHas("contacts.update", TRUE)

C18_CrmStatusTruthful ==
    Invoked("save_lead_to_hubspot") =>
        /\ In(<<"H","u","b","S","p","o","t"," ","I","D",":"," ">>, str(call.result)) => ContactWritten
        /\ (call.w.client /\ ~ContactWritten) => In(<<"H","u","b","S","p","o","t"," ","F","a","i","l","e","d">>, str(call.result))

\* ------------------------------------------------------------------------
\* C19  The save_lead result says the lead was added to the mailing list only
\* when the sync succeeded; when the sync is not configured or fails it says
\* the sync was skipped.
C19_WixStatusTruthful ==
    Invoked("save_lead_to_hubspot") =>
        /\ In(<<"A","d","d","e","d"," ","t","o"," ","W","i","x"," ","N","e","w","s","l","e","t","t","e","r">>, str(call.result)) <=> LogHas("requests.post", TRUE)
        /\ In(<<"W","i","x"," ","S","y","n","c"," ","S","k","i","p","p","e","d">>, str(call.result)) <=> ~LogHas("requests.post", TRUE)

\* ------------------------------------------------------------------------
\* C25  Every assistant message of a session history has non-empty text or at
\* least one tool-call request, whatever the model returned.
C25_AssistantMessageNeverBare ==
    \A s \in Sessions :
        \A k \in 1..Len(persisted[s].messages) :
            persisted[s].messages[k].type = "ai"
            => \/ persisted[s].messages[k].content # << >>
               \/ persisted[s].messages[k].tool_calls # << >>

\* ------------------------------------------------------------------------
\* C26  The /chat response carries the label "lead_captured" if and only if a
\* tools step ran during that turn; otherwise its list of actions is empty.
ToolsStepRan(r) == HasMessage(run[r].st.messages, "tool", r)

C26_LeadCapturedIffToolRan ==
    \A r \in Requests :
        run[r].pc = "returned" =>
            /\ ToolsStepRan(r) => run[r].actions = <<"lead_captured">>
            /\ ~ToolsStepRan(r) => run[r].actions = << >>

C26_Witness ==
    \E r \in Requests :
        /\ run[r].pc = "returned"
        /\ ToolsStepRan(r)
        /\ run[r].actions = <<"lead_captured">>

\* ------------------------------------------------------------------------
\* C28  Classification assigns an intent by priority-ordered keyword rules,
\* first match wins: a message with both a hand-off keyword and a pricing
\* keyword is classified as handoff.
C28_HandoffBeforePricing ==
    (/\ call.op = "classify_user_node"
     /\ call.done
     /\ Last(call.state.messages).content = TxtHandoffPricing)
    => /\ "intent" \in DOMAIN call.state
       /\ call.state.intent = "handoff"

\* ------------------------------------------------------------------------
\* C29  Every generate step selects exactly one persona directive: the admin
\* directive if the last message of the history contains a marker; otherwise
\* the realtor persona if user_role is "realtor"; otherwise the homeowner
\* persona.
GenerateStepDone == call.op = "generate_node" /\ call.done
PersonaSections == {"admin_intro", "realtor_persona", "homeowner_persona"}

C29_PersonaPrecedence ==
    GenerateStepDone =>
        LET last    == Last(call.state_in.messages).content
            role    == call.state_in.user_role
            persona == call.final_input[1].system.persona
        IN  /\ HasToken(last) => persona = "admin"
            /\ (~HasToken(last) /\ role = "realtor") => persona = "realtor"
            /\ (~HasToken(last) /\ role # "realtor") => persona = "homeowner"
            /\ Cardinality({i \in 1..Len(call.sections) :
                               call.sections[i] \in PersonaSections}) = 1

\* The marker arrives in a session already classified as realtor.
C29_Witness ==
    /\ GenerateStepDone
    /\ HasToken(Last(call.state_in.messages).content)
    /\ call.state_in.user_role = "realtor"
    /\ call.final_input[1].system.persona = "admin"

\* ------------------------------------------------------------------------
\* C30  In generate steps with a customer persona the call-to-action is part
\* of the directive exactly when the history holds at least 3 human messages:
\* absent in a session's first two turns, present from the third turn on,
\* also in generate steps that follow a tools step.
IsHumanMessage(m) == m.type = "human"

C30_CallToActionFromThirdTurn ==
    (GenerateStepDone /\ call.final_input[1].system.persona # "admin") =>
        LET humans == SelectSeq(call.state_in.messages, IsHumanMessage)
            cta    == call.final_input[1].system.cta
        IN  /\ cta <=> Len(humans) >= 3
            /\ cta <=> call.turn >= 3
            /\ cta <=> (\E i \in 1..Len(call.sections) :
                            call.sections[i] = "conversion_instruction")

\* Third turn, the generate step after a tools step.
C30_Witness ==
    /\ GenerateStepDone
    /\ call.final_input[1].system.persona # "admin"
    /\ call.turn = 3
    /\ Last(call.state_in.messages).type = "tool"
    /\ call.final_input[1].system.cta

\* ------------------------------------------------------------------------
\* C27  For a budget made of digits followed by the suffix k, with an optional
\* $ and commas, the CRM deal amount recorded by generate_quote_and_deal is
\* the number times 1000.
IsKBudget(b) ==
    /\ Len(b) >= 2
    /\ b[Len(b)] = "k"
    /\ \A i \in 1..(Len(b) - 1) : b[i] \in Digits \cup {","} \/ (i = 1 /\ b[i] = "$")
    /\ \E i \in 1..(Len(b) - 1) : b[i] \in Digits

IsDigitChar(c) == c \in Digits

DealRecorded ==
    /\ Invoked("generate_quote_and_deal")
    /\ Len(call.w.deals) = Len(call.before.deals) + 1

C27_ThousandsSuffix ==
    (DealRecorded /\ IsKBudget(call.args.budget)) =>
        call.w.deals[Len(call.w.deals)].amount
            = to_digits(to_int(SelectSeq(call.args.budget, IsDigitChar)) * 1000)
              \o <<".", "0">>

\* "$1,500k" recorded as 1500000.0
C27_Witness ==
    /\ DealRecorded
    /\ call.args.budget = <<"$","1",",","5","0","0","k">>
    /\ call.w.deals[Len(call.w.deals)].amount = <<"1","5","0","0","0","0","0",".","0">>

\* ------------------------------------------------------------------------
\* Properties of the server
\* ------------------------------------------------------------------------
TurnDone(t) == call.op = "server" /\ call.turns[t].pc = "done"

StoreFailed(t) == TurnDone(t) /\ call.turns[t].error = "OperationalError"

\* C21  When the session store fails during a turn, the caller receives an
\* error signal distinct from a normal response and no response text is
\* produced for that turn, on /chat, the Instagram event and SMS alike.
C21_StoreFailureSignalled ==
    \A t \in ServerTurns :
        StoreFailed(t) =>
            /\ call.turns[t].status >= 500
            /\ call.turns[t].delivered = << >>

\* The handler of turn t read its stream to the end.
StreamEnded(t) ==
    /\ TurnDone(t)
    /\ call.turns[t].error = None
    /\ call.turns[t].loaded_at > 0

\* C22  After a process restart between two turns, the next turn for a session
\* id starts from the message history and the segment that the last completed
\* turn of that session persisted.
NextTurnAfterRestart(t1, t2) ==
    /\ t1 # t2
    /\ StreamEnded(t1)
    /\ call.turns[t2].loaded_at > call.turns[t1].ended_at
    /\ call.turns[t2].thread = call.turns[t1].thread
    /\ \A t3 \in ServerTurns \ {t1, t2} : call.turns[t3].thread # call.turns[t1].thread

C22_HistorySurvivesRestart ==
    call.op = "server" =>
        \A t1, t2 \in ServerTurns :
            NextTurnAfterRestart(t1, t2) =>
                /\ call.turns[t2].base.messages = call.turns[t1].st.messages
                /\ call.turns[t2].base.user_role = call.turns[t1].st.user_role

\* A second turn of thread "A" reads, after a restart, the two messages and
\* the segment the first one left.
C22_Witness ==
    /\ call.op = "server"
    /\ NextTurnAfterRestart(1, 2)
    /\ Len(call.turns[2].base.messages) = 2
    /\ call.turns[2].base.user_role = "homeowner"

\* C23  Processing a turn for session id A never changes the persisted message
\* history or segment of a session id B different from A, under any
\* interleaving of concurrent turns; the loaded agent, the one thing the
\* handlers share, changes only when the process starts.
TurnStepped(t) == call.turns[t] # call'.turns[t]

C23_SessionsIsolated ==
    [][call.op = "server" =>
        /\ \A b \in Threads :
              (\/ call'.store[b].messages # call.store[b].messages
               \/ call'.store[b].user_role # call.store[b].user_role)
                  => \E t \in ServerTurns : TurnStepped(t) /\ call'.turns[t].thread = b
        /\ call'.agent # call.agent => call'.epoch # call.epoch]_vars

\* Two turns in flight at once on different threads, both with a checkpoint.
C23_Witness ==
    /\ call.op = "server"
    /\ InGraph(1) /\ InGraph(2)
    /\ call.turns[1].thread # call.turns[2].thread
    /\ call.store[call.turns[1].thread].messages # << >>
    /\ call.store[call.turns[2].thread].user_role # None

\* C24  On every channel, when the final generative response has empty text
\* and no tool call, the text delivered to the user is a non-empty placeholder.
EmptyFinalResponse(t) ==
    /\ StreamEnded(t)
    /\ call.turns[t].last_response
          = <<[content |-> << >>, tool_calls |-> << >>]>>

C24_PlaceholderOnEveryChannel ==
    \A t \in ServerTurns :
        EmptyFinalResponse(t) =>
            /\ Len(call.turns[t].delivered) = 1
            /\ call.turns[t].delivered[1] # << >>

\* C31  When the agent is not loaded, /chat answers with HTTP status 503,
\* and with no other status.
ChatWithoutAgent(t) ==
    /\ TurnDone(t)
    /\ call.turns[t].channel = "chat"
    /\ call.turns[t].error = "HTTPException"

C31_ChatAnswers503WithoutAgent ==
    \A t \in ServerTurns : ChatWithoutAgent(t) => call.turns[t].status = 503

\* ------------------------------------------------------------------------
\* C32  The sanitizer changes only the text of assistant messages that have
\* empty text and at least one tool call: apart from the admin stripping of
\* the last human message, the history given to the model has the length,
\* order, roles and tool calls of the session history, every other message is
\* unchanged, and sanitizing a sanitized history changes nothing.
HistoryIn == call.state_in.messages

HistoryOut == call.final_input[1].messages

EmptyWithToolCall(m) ==
    m.type = "ai" /\ m.content = << >> /\ m.tool_calls # << >>

AdminStripped(i) ==
    /\ i = Len(HistoryIn)
    /\ HistoryIn[i].type = "human"
    /\ HasToken(HistoryIn[i].content)

C32_SanitizerFrame ==
    (call.op = "generate_node" /\ call.final_input # << >>) =>
        /\ Len(HistoryOut) = Len(HistoryIn)
        /\ \A i \in 1..Len(HistoryIn) :
              /\ HistoryOut[i].type = HistoryIn[i].type
              /\ HistoryOut[i].tool_calls = HistoryIn[i].tool_calls
              /\ HistoryOut[i].content # HistoryIn[i].content =>
                    \/ EmptyWithToolCall(HistoryIn[i])
                    \/ AdminStripped(i)
        /\ \A i \in 1..Len(HistoryOut) : ~EmptyWithToolCall(HistoryOut[i])

\* One history with an empty assistant message that requested a tool, rewritten,
\* and one with neither text nor tool call, left as it was.
C32_Witness ==
    /\ call.op = "generate_node" /\ call.final_input # << >>
    /\ \E i \in 1..Len(HistoryIn) :
          EmptyWithToolCall(HistoryIn[i]) /\ HistoryOut[i].content = SanitizerPlaceholder
    /\ \E j \in 1..Len(HistoryIn) :
          /\ HistoryIn[j].type = "ai" /\ HistoryIn[j].content = << >>
          /\ HistoryIn[j].tool_calls = << >> /\ HistoryOut[j] = HistoryIn[j]

\* ------------------------------------------------------------------------
\* C35  In an admin turn, the last human message passed to the model contains
\* neither FL_ADMIN_ACCESS nor SECRET_KEY_786, whatever the number, overlap and
\* arrangement of the markers in the user text.
C35_NoMarkerReachesModel ==
    (call.op = "admin_text" /\ call.final_input # << >> /\ HasToken(call.text)) =>
        ~HasToken(Last(call.final_input[1].messages).content)

\* ------------------------------------------------------------------------
\* C33  After any sequence of generate_quote_and_deal calls, the document
\* served at the quote link returned for deal D carries the accept and reject
\* links of deal D, also when several quotes are generated for the same user
\* name on the same day.
QuotesMount == base_url \o <<"/","q","u","o","t","e","s","/">>

\* The file StaticFiles serves at `link`.
ServedAt(link) ==
    {f \in call.w.files : QuotesMount \o f.name = link}

EndsWith(text, suffix) ==
    /\ Len(text) >= Len(suffix)
    /\ SubSeq(text, Len(text) - Len(suffix) + 1, Len(text)) = suffix

C33_QuoteLinkServesItsDeal ==
    call.op = "tools" =>
        \A i \in 1..Len(call.w.links) :
            \A f \in ServedAt(call.w.links[i].link) :
                /\ EndsWith(f.document.accept_link, <<"d","e","a","l","_","i","d","=">> \o call.w.links[i].deal_id)
                /\ EndsWith(f.document.reject_link, <<"d","e","a","l","_","i","d","=">> \o call.w.links[i].deal_id)

\* ------------------------------------------------------------------------
\* C34  Conversations of different channels never share a persisted thread: no
\* session_id a /chat caller can supply maps to the thread of an Instagram or
\* SMS conversation.
ChannelKind(channel) == IF channel \in InstagramTypes THEN "instagram" ELSE channel

Received(t) == call.op = "server" /\ call.turns[t].pc # "idle"

C34_ChannelsNeverShareThread ==
    \A t1, t2 \in ServerTurns :
        (/\ Received(t1) /\ Received(t2)
         /\ ChannelKind(call.turns[t1].channel) # ChannelKind(call.turns[t2].channel))
            => call.turns[t1].thread # call.turns[t2].thread

\* ------------------------------------------------------------------------
\* C36  handle_webhook schedules exactly one background reply task for each
\* messaging or standby event that has text and a sender id and is not an echo,
\* and none for echo events or for comments authored by the business's own
\* Instagram id.
Qualifies(event) ==
    event.text # Absent /\ event.sender # Absent /\ ~event.is_echo

RECURSIVE DirectMessages(_)
DirectMessages(entries) ==
    IF entries = << >> THEN << >>
    ELSE SelectSeq(Head(entries).messaging \o Head(entries).standby, Qualifies)
         \o DirectMessages(Tail(entries))

IsDmTask(task) == task.type = "dm"

IsCommentTask(task) == task.type = "comment"

RECURSIVE OwnComments(_)
OwnComments(entries) ==
    IF entries = << >> THEN {}
    ELSE {Head(entries).changes[i].id :
             i \in {k \in 1..Len(Head(entries).changes) :
                       Head(entries).changes[k].from = OwnId}}
         \cup OwnComments(Tail(entries))

C36_OneTaskPerInboundMessage ==
    (call.op = "webhook" /\ call.posted) =>
        LET dms  == DirectMessages(call.entry)
            sent == SelectSeq(call.background_tasks, IsDmTask)
        IN  /\ Len(sent) = Len(dms)
            /\ \A i \in 1..Len(dms) :
                  sent[i].target_id = dms[i].sender /\ sent[i].user_text = dms[i].text
            /\ \A i \in 1..Len(call.background_tasks) :
                  IsCommentTask(call.background_tasks[i]) =>
                      call.background_tasks[i].target_id \notin OwnComments(call.entry)

\* ------------------------------------------------------------------------
\* C37  Over any number of scheduler runs, each Trello card is published to
\* Instagram at most once: a card published successfully is moved out of
\* 'Ready to Post' and never published again, while a card whose post failed
\* stays in the queue.
C37_PublishedAtMostOnce ==
    call.op = "scheduler" =>
        \A c \in CardIds :
            /\ call.board.published[c] <= 1
            /\ call.board.published[c] = 1 => call.board.lists[c] # LIST_READY

\* ------------------------------------------------------------------------
\* C38  Constructing TwilioManager when the Twilio credentials are not
\* configured does not raise: it gives a manager with no client, whose
\* send_sms returns False without sending anything.
CredentialsMissing ==
    \/ call.env.TWILIO_ACCOUNT_SID \in {PyNone, PyStr(<< >>)}
    \/ call.env.TWILIO_AUTH_TOKEN \in {PyNone, PyStr(<< >>)}

C38_NoCredentialsNoClient ==
    (call.op = "twilio" /\ call.constructed /\ CredentialsMissing) =>
        /\ call.raised = None
        /\ ~call.manager.client
        /\ call.n > 0 => (call.value = PyFalse /\ call.sent = << >>)

\* ------------------------------------------------------------------------
\* C39  clean_budget applies the times-1000 or times-1000000 multiplier only
\* when k or m is the magnitude suffix of the amount: for a budget whose number
\* carries no such suffix (digits alone, or digits followed by other words) the
\* recorded amount equals that number, and a text without digits yields "0.00".
AmountChars == Digits \cup {",", "$"}

\* The amount at the head of the text: the longest run of digits, commas and $.
RECURSIVE AmountPart(_)
AmountPart(text) ==
    IF text = << >> \/ text[1] \notin AmountChars THEN << >>
    ELSE <<text[1]>> \o AmountPart(Tail(text))

\* Digits alone, or digits followed by other words.
NoMagnitudeSuffix(text) ==
    LET amount == AmountPart(text)
        rest   == SubSeq(text, Len(amount) + 1, Len(text))
    IN  /\ \E i \in 1..Len(amount) : amount[i] \in Digits
        /\ \A i \in 1..Len(amount) : amount[i] = "$" => i = 1
        /\ amount[Len(amount)] \in Digits
        /\ rest = << >> \/ rest[1] = " "

HasDigit(text) == \E i \in 1..Len(text) : text[i] \in Digits

C39_MultiplierOnlyForSuffix ==
    (call.op = "clean_budget" /\ call.cleaned) =>
        /\ NoMagnitudeSuffix(call.amount_str) =>
              call.amount
                 = to_digits(to_int(SelectSeq(AmountPart(call.amount_str), IsDigitChar)))
                   \o <<".", "0">>
        /\ ~HasDigit(call.amount_str) => call.amount = <<"0",".","0","0">>

====
